---- MODULE Spec2Model ----
(***************************************************************************)
(* Session / identity rotation controller of the YouTube views generator.  *)
(*                                                                         *)
(*   Spec      the CLI main loop (bin/cli.js, ESM version) together with   *)
(*             browser.launchBrowser and the return contract of            *)
(*             TorManager.rotateIP                                         *)
(*   SpecTor   TorManager.rotateIP / sendControlCommand against a clock    *)
(*   SpecPool  ProxyPool (fetchProxies, validateAllProxies, getNextProxy)  *)
(*             with its asynchronous suspension points                     *)
(*   SpecFetch ProxyPool.fetchProxies / parseProxyList on source texts     *)
(*   SpecWatch the choice of the watch duration of a view                  *)
(*   SpecSelect   ProxyPool.getNextProxy with the record of what it        *)
(*                returned, for the order of selection                     *)
(*   SpecControl  one TorManager.sendControlCommand call, event by event   *)
(*   SpecInitTor  TorManager.initTor with ensureTorRunning                 *)
(*   SpecLaunch   one browser.launchBrowser call, attempt by attempt       *)
(*   SpecOptions  the number of views from -n/--views and the prompt to    *)
(*                the main loop                                            *)
(*   SpecRetry    one call of a function wrapped by withRetry              *)
(*   SpecLimiter  one RateLimiter object against a clock                   *)
(***************************************************************************)
EXTENDS Integers, Sequences, FiniteSets, TLC

\* ------------------------------------------------------------------------
\* Bounds of the model
\* ------------------------------------------------------------------------
MaxViews == 3
\* the clock of the TorManager model stops here (units of 5000 ms)
MaxClock == 14

\* longest source text, in lines: of the fetch model, of the pool model
MaxLines == 2
PoolMaxLines == 2
\* the clock of the ProxyPool model stops here
PoolMaxClock == 3
\* proxyConfig.refreshInterval and proxyConfig.revalidateInterval as the pool
\* is configured in the model (init(config) overrides the defaults), and the
\* batch size of validateAllProxies scaled to the size of the modelled pools
RefreshInterval == 1
RevalidateInterval == 1
BatchSize == 1

\* largest bound of the watch duration in the model, in seconds
MaxWatchSeconds == 14
\* Math.random() takes the values 0/RandomSteps .. (RandomSteps-1)/RandomSteps
\* chunks of the control connection's answer
MaxChunks == 2
\* cap of the count of consecutive selections
MaxRun == 3
RandomSteps == 8
\* passes of the main loop followed in the model of the options
MaxPasses == 2
\* the arguments of withRetry: maxRetries up to, delayMs up to
MaxRetriesArg == 2
MaxDelayMs == 2
\* the arguments of RateLimiter up to, and where its clock stops
MaxCallsArg == 2
MaxWindowMs == 3
LimiterMaxClock == 5

\* ------------------------------------------------------------------------
\* Program constants of the prompts
\* ------------------------------------------------------------------------
\* validate of minWatchSeconds: input >= 10
MinWatchLimit == 10
\* validate of numViews: input <= 1000
ViewsLimit == 1000

\* ------------------------------------------------------------------------
\* Program constants of TorManager (in units of 5000 ms)
\* ------------------------------------------------------------------------
\* cfg.minRotationInterval || 10000
MinRotationInterval == 2
\* cfg.circuitBuildTime || 15000
\* for (let i = 0; i < 10; i++) of ensureTorRunning
ReadinessPolls == 10
CircuitBuildTime == 3

\* ------------------------------------------------------------------------
\* Values
\* ------------------------------------------------------------------------
Puppeteer == "Chromium/Puppeteer"
Selenium == "Selenium (Chrome/Firefox)"
Backends == {Puppeteer, Selenium}
ProxyModes == {"tor", "http"}

\* What one connection to the Tor control port can end in
\* (sendControlCommand: close with '250 OK', close without it, error, timeout).
ControlOutcomes == {"ack", "noack", "error", "timeout"}

\* Addresses the address-echo endpoint can report; "falsy" is a response
\* without an origin field, "throws" a failed request.
Ips == {"1.1.1.1", "2.2.2.2"}
IpResults == Ips \cup {"falsy", "throws"}

\* What tor.initTor and the initial address check can end in.
InitTorResults == {"ok", "initThrows", "ipFalsy", "ipThrows"}

\* ------------------------------------------------------------------------
\* UIManager: log levels
\* ------------------------------------------------------------------------
\* this.logLevel: the constructor does not set it, setLogLevel('debug') does
LogLevels == {"undefined", "debug"}
Levels == <<"error", "warn", "info", "debug">>

\* Array.prototype.indexOf, 0-based, -1 when absent
IndexOf(seq, x) ==
  IF \E k \in 1..Len(seq) : seq[k] = x
    THEN (CHOOSE k \in 1..Len(seq) : seq[k] = x) - 1
    ELSE -1

ShouldLog(current, level) == IndexOf(Levels, level) <= IndexOf(Levels, current)

\* log(message, level): 'Always log errors'
LogWrites(current, level) == ShouldLog(current, level) \/ level = "error"

\* logSuccess(message)
LogSuccessWrites(current) == ShouldLog(current, "info")

VARIABLES
  \* ---- configuration of the run (finalOptions, config/paths.json) ----
  proxyMode, backend, numViews, performLike, proxySourcesForPool, logLevel,
  \* ---- main(): locals and position ----
  pc, i, successCount, failCount, currentProxyString, lastIp,
  browserInstance, page, exitCode,
  \* ---- main(): history of the run ----
  initialized, poolInit, begun, failAtBegin, ctlFailed, launched, closes,
  openSessions, rotations, sleeps, fatal, completed, summary,
  \* ---- main(): what initTor and the address checks gave, the warning of the
  \*      rotation branch in this iteration, the lines of the summary written ----
  torInit, ipLog, ipWarn, summaryLines

mainVars == <<proxyMode, backend, numViews, performLike, proxySourcesForPool, logLevel,
              pc, i, successCount, failCount, currentProxyString, lastIp,
              browserInstance, page, exitCode,
              initialized, poolInit, begun, failAtBegin, ctlFailed, launched,
              closes, openSessions, rotations, sleeps, fatal, completed, summary,
              torInit, ipLog, ipWarn, summaryLines>>

VARIABLES
  \* ---- TorManager fields ----
  rotationCount, lastRotation,
  \* ---- the rotateIP call in progress: position, timer, what it returned ----
  torPc, wakeAt, rotateResult,
  \* ---- Date.now() and the times of the last two NEWNYM commands sent ----
  now, prevSent, lastSent

torVars == <<rotationCount, lastRotation, torPc, wakeAt, rotateResult,
             now, prevSent, lastSent>>

VARIABLES
  \* ---- the ProxyPool singleton: its fields and its calls in progress ----
  proxyPool,
  \* ---- Date.now() for the pool ----
  poolNow

poolVars == <<proxyPool, poolNow>>

VARIABLES
  \* ---- the watch duration of one view: the two bounds, Math.random() as
  \*      the numerator of a fraction of RandomSteps, the duration chosen ----
  minWatchSeconds, maxWatchSeconds, random, watchDurationSeconds

watchVars == <<minWatchSeconds, maxWatchSeconds, random, watchDurationSeconds>>

VARIABLES
  \* ---- the endpoint getNextProxy returned last while the validated
  \*      candidates stayed the same (<<>>: none yet, or they changed) ----
  lastSelected,
  \* ---- how many consecutive calls returned an endpoint since then ----
  selectRun

selectVars == <<lastSelected, selectRun>>

VARIABLES
  \* ---- the object main passes to initTor (this.torConfig) ----
  torConfig,
  \* ---- one sendControlCommand call: the socket, where it connected, what
  \*      was written, the chunks received (response), how the promise
  \*      settled and the message of its error ----
  socket, connectedTo, written, response, settled, errorMessage

controlVars == <<torConfig, socket, connectedTo, written, response, settled,
                 errorMessage>>

VARIABLES
  \* ---- one initTor call: config/paths.json and the file system, the
  \*      position in ensureTorRunning / initTor, the loop counter i, the
  \*      isTorRunning probes made, whether any probe found the port open,
  \*      TorManager.isInitialized, how the call ended ----
  torPath, initPc, pollIndex, probes, reached, isInitialized, initResult

initTorVars == <<torPath, initPc, pollIndex, probes, reached, isInitialized,
                 initResult>>

VARIABLES
  \* ---- one launchBrowser call (src/lib/browser.js), attempt by attempt ----
  configBackend,   \* config.backend of config/paths.json, "undefined" when absent
  launchEnv,       \* what the imports and launches of this call end in
  launchPc,        \* position of the call
  launchBackend,   \* the local variable backend
  attempted,       \* the backends tried so far, in order
  fallbacks,       \* how often the call went on to another backend
  launchReturn     \* "none", or the kind of what the call ended in

launchVars == <<configBackend, launchEnv, launchPc, launchBackend, attempted,
                fallbacks, launchReturn>>

VARIABLES
  \* ---- the number of views from the command line to finalOptions ----
  viewsArg,          \* whether -n/--views was given, and its text
  cliViews,          \* cliOpts.views
  optPc,             \* position in main's option handling
  promptAsked,       \* whether the numViews question was shown
  promptedNumViews,  \* promptedOptions.numViews
  finalNumViews,     \* finalOptions.numViews
  iterations         \* passes of the main loop body

optionVars == <<viewsArg, cliViews, optPc, promptAsked, promptedNumViews,
                finalNumViews, iterations>>

VARIABLES
  \* ---- one call of a function wrapped by withRetry ----
  maxRetries, delayMs,   \* the arguments of withRetry
  retryPc,               \* position of the call
  retryI,                \* the loop variable i
  fnCalls,               \* the outcome of every call of fn so far, in order
  waits,                 \* the delays awaited so far, in order
  lastError,             \* the local variable lastError
  retryResult            \* how the wrapped call ended

retryVars == <<maxRetries, delayMs, retryPc, retryI, fnCalls, waits, lastError,
               retryResult>>

VARIABLES
  \* ---- one RateLimiter object ----
  maxCalls, windowMs,    \* the arguments of the constructor
  calls,                 \* this.calls: the timestamps kept
  limNow,                \* Date.now()
  granted,               \* the times at which makeCall returned true
  lastOp,                \* the latest call of a method and what it returned
  waitUntil              \* the time the latest getWaitTime told to wait for,
                         \* -1 when none or after a makeCall

limiterVars == <<maxCalls, windowMs, calls, limNow, granted, lastOp, waitUntil>>

utilVars == <<launchVars, optionVars, retryVars, limiterVars>>

detailVars == <<selectVars, controlVars, initTorVars, utilVars>>

notMain == <<torVars, poolVars, watchVars, detailVars>>
notTor == <<mainVars, poolVars, watchVars, detailVars>>
notPool == <<mainVars, torVars, watchVars, detailVars>>
notWatch == <<mainVars, torVars, poolVars, detailVars>>
notSelect == <<mainVars, torVars, watchVars, controlVars, initTorVars, utilVars>>
notControl == <<mainVars, torVars, poolVars, watchVars, selectVars, initTorVars,
                utilVars>>
notInitTor == <<mainVars, torVars, poolVars, watchVars, selectVars, controlVars,
                utilVars>>
notUtil == <<mainVars, torVars, poolVars, watchVars, selectVars, controlVars,
             initTorVars>>
notLaunch == <<notUtil, optionVars, retryVars, limiterVars>>
notOptions == <<notUtil, launchVars, retryVars, limiterVars>>
notRetry == <<notUtil, launchVars, optionVars, limiterVars>>
notLimiter == <<notUtil, launchVars, optionVars, retryVars>>

vars == <<mainVars, torVars, poolVars, watchVars, detailVars>>

\* ------------------------------------------------------------------------
\* TorManager.rotateIP as seen by its caller
\* ------------------------------------------------------------------------
\* sendControlCommand resolves only when the connection closes with '250 OK'
SendControlCommandResolves(ctl) == ctl = "ack"

\* rotateIP wraps everything in try/catch: true on success, false on any
\* error; it has no path that throws.
RotateIP(ctl) == IF SendControlCommandResolves(ctl) THEN "true" ELSE "false"

\* ------------------------------------------------------------------------
\* browser.launchBrowser / selenium.launchSeleniumBrowser
\* ------------------------------------------------------------------------
\* What the environment does to one launch attempt.
LaunchEnvs == [selImport : {"ok", "throws"},
               selBuild  : {"ok", "fails"},
               pup       : {"ok", "launchThrows", "newPageThrows"}]

\* launchSeleniumBrowser: {driver, page: driver} or null, never throws
LaunchSeleniumBrowser(e) ==
  IF e.selBuild = "ok" THEN [kind |-> "selenium", browser |-> "undefined", page |-> "driver"]
                       ELSE [kind |-> "null", browser |-> "undefined", page |-> "undefined"]

\* What launchBrowser gives back to main: a handle, null, or the process is
\* terminated from inside (kind "exit").
LaunchBrowser(b, e) ==
  IF b = Selenium /\ e.selImport = "ok"
    THEN LaunchSeleniumBrowser(e)
    ELSE \* Puppeteer, configured or as fallback of a failed Selenium import
      IF e.pup = "ok"
        THEN [kind |-> "puppeteer", browser |-> "browser", page |-> "page"]
        ELSE IF e.selImport = "ok"
          THEN LaunchSeleniumBrowser(e)
          ELSE [kind |-> "exit", browser |-> "undefined", page |-> "undefined"]

\* Browser processes a launch attempt created and did not hand to the caller
\* under a name the caller closes.
LaunchLeaks(b, e) ==
  IF b = Selenium /\ e.selImport = "ok" THEN 0
  ELSE IF e.pup = "newPageThrows" THEN 1 ELSE 0

\* watchVideo on the page handle: a Selenium driver has no goto(), the
\* TypeError is caught inside watchVideo, which then returns false.
WatchOutcomes(p) == IF p = "driver" THEN {"false"} ELSE {"true", "false", "throws"}

LikeOutcomes == {"true", "false", "throws"}

\* ------------------------------------------------------------------------
\* main(): initial state (after the prompts)
\* ------------------------------------------------------------------------
MainInit ==
  /\ proxyMode \in ProxyModes
  /\ backend \in Backends
  /\ numViews \in 1..MaxViews
  /\ performLike \in BOOLEAN
  /\ proxySourcesForPool \in 0..1
  /\ logLevel \in LogLevels
  /\ pc = "Initializing"
  /\ i = 0
  /\ successCount = 0
  /\ failCount = 0
  /\ currentProxyString = "null"
  /\ lastIp = "null"
  /\ browserInstance = "null"
  /\ page = "null"
  /\ exitCode = -1
  /\ initialized = FALSE
  /\ poolInit = "none"
  /\ begun = 0
  /\ failAtBegin = 0
  /\ ctlFailed = FALSE
  /\ launched = FALSE
  /\ closes = 0
  /\ openSessions = 0
  /\ rotations = 0
  /\ sleeps = 0
  /\ fatal = FALSE
  /\ completed = FALSE
  /\ summary = FALSE
  /\ torInit = "none"
  /\ ipLog = <<>>
  /\ ipWarn = FALSE
  /\ summaryLines = {}

Exit(code) == pc' = "exited" /\ exitCode' = code

configVars == <<proxyMode, backend, numViews, performLike, proxySourcesForPool, poolInit,
                logLevel>>
iterVars == <<failAtBegin, ctlFailed, launched, closes, browserInstance, page, ipWarn>>

\* only the catch block ends the run: the test of the initial address is left out
InitTorFailsOnThrowOnly(r) == r \in {"initThrows", "ipThrows"}

\* initialization of the tor provider fails: initTor throws (catch), the
\* initial address is falsy (if (!ip)), or getCurrentIp throws (catch)
InitTorFails(r) == r # "ok"

\* tor.initTor, then the initial address check
InitTor ==
  /\ pc = "Initializing"
  /\ proxyMode = "tor"
  /\ \E r \in InitTorResults :
       /\ torInit' = r
       /\ IF ~InitTorFails(r)
            THEN /\ pc' = "LoopHead"
                 /\ currentProxyString' = "socks5"
                 /\ initialized' = TRUE
                 /\ UNCHANGED exitCode
            ELSE /\ Exit(1)
                 /\ UNCHANGED <<currentProxyString, initialized>>
  /\ UNCHANGED <<configVars, i, successCount, failCount, lastIp, iterVars,
                 begun, openSessions, rotations, sleeps, fatal, completed, summary,
                 ipLog, summaryLines>>
  /\ UNCHANGED notMain

\* every iteration of tor mode rotates, the first one too
FirstStepAlwaysRotate(mode, idx) ==
  IF mode = "tor" THEN "Rotate" ELSE "HttpAcquire"

\* how the iteration acquires its identity: tor rotates only when i > 0
FirstStep(mode, idx) ==
  IF mode = "tor" THEN (IF idx > 0 THEN "Rotate" ELSE "CheckIp")
  ELSE "HttpAcquire"

\* for (let i = 0; i < numViews; i++) { ... : the head of one iteration
IterationBegin ==
  /\ pc = "LoopHead"
  /\ i < numViews
  /\ begun' = begun + 1
  /\ failAtBegin' = failCount
  /\ ctlFailed' = FALSE
  /\ launched' = FALSE
  /\ closes' = 0
  /\ browserInstance' = "null"
  /\ page' = "null"
  /\ ipWarn' = FALSE
  /\ pc' = FirstStep(proxyMode, i)
  /\ UNCHANGED <<configVars, i, successCount, failCount, currentProxyString, lastIp,
                 exitCode, initialized, openSessions, rotations, sleeps, fatal,
                 completed, summary, torInit, ipLog, summaryLines>>
  /\ UNCHANGED notMain

\* i > 0: await tor.rotateIP(...) inside try
Rotate ==
  /\ pc = "Rotate"
  /\ rotations' = rotations + 1
  /\ \E ctl \in ControlOutcomes :
       /\ ctlFailed' = ~SendControlCommandResolves(ctl)
       /\ IF RotateIP(ctl) = "throw"
            THEN failCount' = failCount + 1 /\ pc' = "RotateFailDelay"
            ELSE UNCHANGED failCount /\ pc' = "VerifyIp"
  /\ UNCHANGED <<configVars, i, successCount, currentProxyString, lastIp, exitCode,
                 failAtBegin, launched, closes, browserInstance, page, initialized,
                 begun, openSessions, sleeps, fatal, completed, summary,
                 torInit, ipLog, ipWarn, summaryLines>>
  /\ UNCHANGED notMain

\* the address is taken as not confirmed only when it is missing
IpConfirmedNoCompare(newIp, last) == newIp # "falsy"

\* the negation of (!newIp || newIp === lastIp)
IpConfirmed(newIp, last) == ~(newIp = "falsy" \/ newIp = last)

\* delay(1000); newIp = await tor.getCurrentIp(...); compare with lastIp
VerifyIp ==
  /\ pc = "VerifyIp"
  /\ \E newIp \in IpResults :
       /\ ipLog' = Append(ipLog, newIp)
       /\ IF newIp = "throws"
            THEN /\ failCount' = failCount + 1
                 /\ pc' = "RotateFailDelay"
                 /\ UNCHANGED <<lastIp, currentProxyString, ipWarn>>
            ELSE /\ lastIp' = IF IpConfirmed(newIp, lastIp) THEN newIp ELSE lastIp
                 /\ ipWarn' = ~IpConfirmed(newIp, lastIp)
                 /\ currentProxyString' = "socks5"
                 /\ pc' = "Launch"
                 /\ UNCHANGED failCount
  /\ UNCHANGED <<configVars, i, successCount, exitCode, failAtBegin, ctlFailed,
                 launched, closes, browserInstance, page, initialized, begun,
                 openSessions, rotations, sleeps, fatal, completed, summary,
                 torInit, summaryLines>>
  /\ UNCHANGED notMain

\* catch (torError): the pacing delay, then continue
RotateFailDelay ==
  /\ pc = "RotateFailDelay"
  /\ sleeps' = sleeps + 1
  /\ i' = i + 1
  /\ pc' = "LoopHead"
  /\ ctlFailed' = FALSE
  /\ UNCHANGED <<configVars, successCount, failCount, currentProxyString, lastIp,
                 exitCode, failAtBegin, launched, closes, browserInstance, page,
                 initialized, begun, openSessions, rotations, fatal,
                 completed, summary, torInit, ipLog, ipWarn, summaryLines>>
  /\ UNCHANGED notMain

\* i = 0: lastIp = await tor.getCurrentIp(...), errors only logged
CheckIp ==
  /\ pc = "CheckIp"
  /\ \E ip \in IpResults :
       /\ lastIp' = IF ip = "throws" THEN lastIp ELSE IF ip = "falsy" THEN "null" ELSE ip
       /\ ipLog' = Append(ipLog, ip)
  /\ currentProxyString' = "socks5"
  /\ pc' = "Launch"
  /\ UNCHANGED <<configVars, i, successCount, failCount, exitCode, iterVars, initialized, begun,
                 openSessions, rotations, sleeps, fatal, completed, summary,
                 torInit, summaryLines>>
  /\ UNCHANGED notMain

\* http branch: ipSpinner is not declared in this scope, the first statement
\* raises a ReferenceError outside every per-iteration try
HttpAcquire ==
  /\ pc = "HttpAcquire"
  /\ pc' = "OuterCatch"
  /\ UNCHANGED <<configVars, i, successCount, failCount, currentProxyString, lastIp,
                 exitCode, iterVars, initialized, begun, openSessions, rotations, sleeps, fatal,
                 completed, summary, torInit, ipLog, summaryLines>>
  /\ UNCHANGED notMain

\* launched = await browser.launchBrowser(...); check; take browser and page
Launch ==
  /\ pc = "Launch"
  /\ \E e \in LaunchEnvs :
       LET l == LaunchBrowser(backend, e) IN
       /\ openSessions' = openSessions + LaunchLeaks(backend, e)
                          + (IF l.kind \in {"puppeteer", "selenium"} THEN 1 ELSE 0)
       /\ CASE l.kind = "exit" ->
                 /\ Exit(1)
                 /\ UNCHANGED <<failCount, iterVars>>
            [] l.kind = "null" ->
                 \* throw new Error('Browser launch returned invalid instance')
                 /\ failCount' = failCount + 1
                 /\ pc' = "Finally"
                 /\ UNCHANGED <<exitCode, iterVars>>
            [] OTHER ->
                 /\ launched' = TRUE
                 /\ browserInstance' = l.browser
                 /\ page' = l.page
                 /\ pc' = "Watch"
                 /\ UNCHANGED <<exitCode, failCount, closes, failAtBegin, ctlFailed, ipWarn>>
  /\ UNCHANGED <<configVars, i, successCount, currentProxyString, lastIp, initialized, begun,
                 rotations, sleeps, fatal, completed, summary, torInit, ipLog,
                 summaryLines>>
  /\ UNCHANGED notMain

\* watched = await actions.watchVideo(page, ...)
Watch ==
  /\ pc = "Watch"
  /\ \E w \in WatchOutcomes(page) :
       CASE w = "true" ->
              IF performLike
                THEN pc' = "Like" /\ UNCHANGED <<successCount, failCount>>
                ELSE pc' = "Finally" /\ successCount' = successCount + 1
                     /\ UNCHANGED failCount
         [] w = "false" ->
              pc' = "Finally" /\ failCount' = failCount + 1 /\ UNCHANGED successCount
         [] OTHER ->
              \* catch (viewError)
              pc' = "Finally" /\ failCount' = failCount + 1 /\ UNCHANGED successCount
  /\ UNCHANGED <<configVars, i, currentProxyString, lastIp, exitCode, iterVars, initialized, begun,
                 openSessions, rotations, sleeps, fatal, completed, summary,
                 torInit, ipLog, summaryLines>>
  /\ UNCHANGED notMain

\* likeVideo without the successCount++ that follows it
LikeNoCount ==
  /\ pc = "Like"
  /\ \E l \in LikeOutcomes :
       IF l = "throws"
         THEN failCount' = failCount + 1 /\ UNCHANGED successCount
         ELSE UNCHANGED <<successCount, failCount>>
  /\ pc' = "Finally"
  /\ UNCHANGED <<configVars, i, currentProxyString, lastIp, exitCode, iterVars, initialized, begun,
                 openSessions, rotations, sleeps, fatal, completed, summary,
                 torInit, ipLog, summaryLines>>
  /\ UNCHANGED notMain

\* await actions.likeVideo(page); successCount++
Like ==
  /\ pc = "Like"
  /\ \E l \in LikeOutcomes :
       IF l = "throws"
         THEN failCount' = failCount + 1 /\ UNCHANGED successCount
         ELSE successCount' = successCount + 1 /\ UNCHANGED failCount
  /\ pc' = "Finally"
  /\ UNCHANGED <<configVars, i, currentProxyString, lastIp, exitCode, iterVars, initialized, begun,
                 openSessions, rotations, sleeps, fatal, completed, summary,
                 torInit, ipLog, summaryLines>>
  /\ UNCHANGED notMain

\* finally: close the browser when main holds an object with close()
Finally ==
  /\ pc = "Finally"
  /\ IF browserInstance = "browser"
       THEN /\ closes' = closes + 1
            /\ \E closed \in BOOLEAN :
                 openSessions' = IF closed THEN openSessions - 1 ELSE openSessions
       ELSE UNCHANGED <<closes, openSessions>>
  /\ pc' = "Pace"
  /\ UNCHANGED <<configVars, i, successCount, failCount, currentProxyString, lastIp,
                 exitCode, failAtBegin, ctlFailed, launched, browserInstance, page,
                 initialized, begun, rotations, sleeps,
                 fatal, completed, summary, torInit, ipLog, ipWarn, summaryLines>>
  /\ UNCHANGED notMain

\* if (i < numViews - 1) delay(...); i++
Pace ==
  /\ pc = "Pace"
  /\ sleeps' = IF i < numViews - 1 THEN sleeps + 1 ELSE sleeps
  /\ i' = i + 1
  /\ pc' = "LoopHead"
  /\ UNCHANGED <<configVars, successCount, failCount, currentProxyString, lastIp,
                 exitCode, iterVars, initialized, begun, openSessions, rotations, fatal,
                 completed, summary, torInit, ipLog, summaryLines>>
  /\ UNCHANGED notMain

\* mainSpinner.succeed('All views processed!')
Completed ==
  /\ pc = "LoopHead"
  /\ i >= numViews
  /\ completed' = TRUE
  /\ pc' = "Summary"
  /\ UNCHANGED <<configVars, i, successCount, failCount, currentProxyString, lastIp,
                 exitCode, iterVars, initialized, begun, openSessions, rotations, sleeps, fatal,
                 summary, torInit, ipLog, summaryLines>>
  /\ UNCHANGED notMain

\* catch (error): 'Fatal error: ...'
OuterCatch ==
  /\ pc = "OuterCatch"
  /\ fatal' = TRUE
  /\ pc' = "Summary"
  /\ UNCHANGED <<configVars, i, successCount, failCount, currentProxyString, lastIp,
                 exitCode, iterVars, initialized, begun, openSessions, rotations, sleeps,
                 completed, summary, torInit, ipLog, summaryLines>>
  /\ UNCHANGED notMain

\* finally: Execution Summary (logSuccess for the successful views, logError
\* for the failed views), process.exit(0)
Summary ==
  /\ pc = "Summary"
  /\ summary' = TRUE
  /\ summaryLines' = (IF LogSuccessWrites(logLevel) THEN {"Successful views"} ELSE {})
                       \cup (IF LogWrites(logLevel, "error") THEN {"Failed views"} ELSE {})
  /\ Exit(0)
  /\ UNCHANGED <<configVars, i, successCount, failCount, currentProxyString, lastIp,
                 iterVars, initialized, begun, openSessions, rotations, sleeps, fatal,
                 completed, torInit, ipLog>>
  /\ UNCHANGED notMain

\* ------------------------------------------------------------------------
\* TorManager.rotateIP against the clock
\* ------------------------------------------------------------------------
\* constructor; Date.now() is far beyond minRotationInterval
TorInit ==
  /\ rotationCount = 0
  /\ lastRotation = 0
  /\ torPc = "idle"
  /\ wakeAt = 0
  /\ rotateResult = "none"
  /\ now = MinRotationInterval
  /\ prevSent = -1
  /\ lastSent = -1

\* time passes
Tick ==
  /\ now < MaxClock
  /\ now' = now + 1
  /\ UNCHANGED <<rotationCount, lastRotation, torPc, wakeAt, rotateResult,
                 prevSent, lastSent>>
  /\ UNCHANGED notTor

\* how long rotateIP delays before it sends the command
WaitTime(t, last) ==
  IF t - last < MinRotationInterval THEN MinRotationInterval - (t - last) ELSE 0

\* rotateIP(): the interval check, up to the first await
RotateIPCall ==
  /\ torPc = "idle"
  /\ rotateResult' = "none"
  /\ IF WaitTime(now, lastRotation) > 0
       THEN torPc' = "waiting" /\ wakeAt' = now + WaitTime(now, lastRotation)
       ELSE torPc' = "sending" /\ UNCHANGED wakeAt
  /\ UNCHANGED <<rotationCount, lastRotation, now, prevSent, lastSent>>
  /\ UNCHANGED notTor

\* await delay(waitTime) is over
WaitOver ==
  /\ torPc = "waiting"
  /\ now >= wakeAt
  /\ torPc' = "sending"
  /\ UNCHANGED <<rotationCount, lastRotation, wakeAt, rotateResult, now,
                 prevSent, lastSent>>
  /\ UNCHANGED notTor

\* sendControlCommand('NEWNYM'): the connection is made and AUTHENTICATE,
\* NEWNYM, QUIT are written, or the connection fails before anything is sent
\* and rotateIP returns false
SendControlCommand ==
  /\ torPc = "sending"
  /\ \E connected \in BOOLEAN :
       IF connected
         THEN /\ torPc' = "awaitClose"
              /\ prevSent' = lastSent
              /\ lastSent' = now
              /\ UNCHANGED rotateResult
         ELSE /\ torPc' = "idle"
              /\ rotateResult' = RotateIP("error")
              /\ UNCHANGED <<prevSent, lastSent>>
  /\ UNCHANGED <<rotationCount, lastRotation, wakeAt, now>>
  /\ UNCHANGED notTor

\* the control connection ends: close, error or timeout
ControlClose ==
  /\ torPc = "awaitClose"
  /\ \E ctl \in ControlOutcomes :
       IF RotateIP(ctl) = "true"
         THEN /\ torPc' = "building"
              /\ wakeAt' = now + CircuitBuildTime
              /\ UNCHANGED rotateResult
         ELSE /\ torPc' = "idle"
              /\ rotateResult' = RotateIP(ctl)
              /\ UNCHANGED wakeAt
  /\ UNCHANGED <<rotationCount, lastRotation, now, prevSent, lastSent>>
  /\ UNCHANGED notTor

\* the success path without rotationCount++
CircuitBuiltNoCount ==
  /\ torPc = "building"
  /\ now >= wakeAt
  /\ lastRotation' = now
  /\ torPc' = "idle"
  /\ rotateResult' = "true"
  /\ UNCHANGED <<rotationCount, wakeAt, now, prevSent, lastSent>>
  /\ UNCHANGED notTor

\* await delay(circuitBuildTime) is over: rotationCount++, lastRotation = now
CircuitBuilt ==
  /\ torPc = "building"
  /\ now >= wakeAt
  /\ rotationCount' = rotationCount + 1
  /\ lastRotation' = now
  /\ torPc' = "idle"
  /\ rotateResult' = "true"
  /\ UNCHANGED <<wakeAt, now, prevSent, lastSent>>
  /\ UNCHANGED notTor

TorNext ==
  \/ Tick \/ RotateIPCall \/ WaitOver \/ SendControlCommand \/ ControlClose
  \/ CircuitBuilt

\* ------------------------------------------------------------------------
\* ProxyPool: source texts and parseProxyList
\* ------------------------------------------------------------------------
\* parseInt of a string of decimal digits
RECURSIVE ParseInt(_)
ParseInt(ds) ==
  IF Len(ds) = 0 THEN 0
  ELSE 10 * ParseInt(SubSeq(ds, 1, Len(ds) - 1)) + ds[Len(ds)]

\* String.prototype.toLowerCase on the schemes of the model
ToLowerCase(t) == IF t = "HTTP" THEN "http" ELSE IF t = "SOCKS5" THEN "socks5" ELSE t

\* hosts as written in a line: four groups of digits
H1 == << <<1>>, <<1>>, <<1>>, <<1>> >>
H2 == << <<2>>, <<2>>, <<2>>, <<2>> >>
H999 == << <<9, 9, 9>>, <<1>>, <<1>>, <<1>> >>

\* A line of a source text: 'scheme://host:port', bare 'host:port' (scheme ""),
\* or something else (comment, blank, garbage).
EndpointLine(t, h, ds) == [kind |-> "endpoint", scheme |-> t, host |-> h, port |-> ds]
CommentLine == [kind |-> "comment", scheme |-> "", host |-> <<>>, port |-> <<>>]

\* the two regular expressions: 1-3 digits per group, 1-5 digits of port
MatchesEndpoint(line) ==
  /\ line.kind = "endpoint"
  /\ Len(line.host) = 4
  /\ \A k \in 1..4 : Len(line.host[k]) \in 1..3
  /\ Len(line.port) \in 1..5

\* the normalized endpoint of a matching line (proxyUrlString): lower-cased
\* scheme (http, or socks5 when the source URL contains 'socks', for a bare
\* line), host as written, port through parseInt
ProxyUrlString(line, socksSource) ==
  << IF line.scheme # "" THEN ToLowerCase(line.scheme)
     ELSE IF socksSource THEN "socks5" ELSE "http",
     line.host,
     ParseInt(line.port) >>

\* parseProxyList(textData, sourceUrl): the url of every matching line, in order
RECURSIVE ParseProxyList(_, _)
ParseProxyList(text, socksSource) ==
  IF Len(text) = 0 THEN <<>>
  ELSE LET line == Head(text)
           rest == ParseProxyList(Tail(text), socksSource)
       IN IF MatchesEndpoint(line)
            THEN <<ProxyUrlString(line, socksSource)>> \o rest
            ELSE rest

\* new URL(proxyUrl) does not throw: every group of the host at most 255
\* (a leading 0 makes the group octal), the port at most 65535
GroupValue(ds) ==
  IF Len(ds) > 1 /\ ds[1] = 0
    THEN IF \E k \in 1..Len(ds) : ds[k] > 7 THEN 256
         ELSE IF Len(ds) = 2 THEN ds[2] ELSE 8 * ds[2] + ds[3]
    ELSE ParseInt(ds)
UrlParses(u) ==
  /\ \A k \in 1..4 : GroupValue(u[2][k]) <= 255
  /\ u[3] <= 65535

\* Set.add: insertion order, no second copy
RECURSIVE AddAll(_, _)
\* an Array.push in place of the Set: every parsed url is kept
AddAllNoDedup(acc, us) == acc \o us

AddAll(acc, us) ==
  IF Len(us) = 0 THEN acc
  ELSE AddAll(IF \E k \in 1..Len(acc) : acc[k] = Head(us) THEN acc
              ELSE Append(acc, Head(us)), Tail(us))

\* sequences of at most n elements of S
SeqsUpTo(S, n) == UNION {[1..k -> S] : k \in 0..n}

\* the lines and texts the sources of the model can serve
Lines == { EndpointLine("", H1, <<8, 0>>),
           EndpointLine("HTTP", H1, <<0, 8, 0>>),
           EndpointLine("", H999, <<8, 0>>),
           CommentLine }
Texts == SeqsUpTo(Lines, MaxLines)

\* the lines and texts the source of the pool model can serve
PoolLines == { EndpointLine("", H1, <<8, 0>>),
               EndpointLine("http", H2, <<8, 0>>) }
PoolTexts == SeqsUpTo(PoolLines, PoolMaxLines)

\* the lines and texts the source of the selection model can serve: three
\* distinct endpoints, each present or not, in one order
SelectLineSeq == << EndpointLine("", H1, <<8, 0>>),
                    EndpointLine("http", H2, <<8, 0>>),
                    EndpointLine("socks5", H1, <<8, 0>>) >>
SelectLines == {SelectLineSeq[k] : k \in 1..Len(SelectLineSeq)}
SelectTexts == { SelectSeq(SelectLineSeq, LAMBDA l : l \in S) : S \in SUBSET SelectLines }

\* ------------------------------------------------------------------------
\* ProxyPool: state
\* ------------------------------------------------------------------------
Undefined == [valid |-> FALSE, lastChecked |-> -1]

\* every endpoint a text of the model can yield
AllUrls == UNION { {ParseProxyList(<<l>>, k)[1] : k \in BOOLEAN} :
                   l \in {x \in Lines \cup PoolLines \cup SelectLines : MatchesEndpoint(x)} }

\* new ProxyPool(), then init({sources}); besides the fields of the object the
\* record holds the calls in progress:
\*   fetch*  the running fetchProxies (next source, the Set of urls so far,
\*           whether getNextProxy awaits it, its argument force)
\*   val*    the running validateAllProxies (proxiesToValidate, end of the
\*           current batch, probes in flight, whether getNextProxy awaits it)
\*   gnp*    the getNextProxy call (position, result, the path it returned by)
\*   probed  the outcome of the latest completed probe of each endpoint
\*   fetchParsed, fetchFailed  what the running fetchProxies parsed from the
\*           sources that answered, and whether a source failed; parsedSeen,
\*           failSeen  the same for the last fetchProxies that replaced the list
\*   fetchPasses, valPasses  the number of source-fetch passes and of
\*           validation passes that have started and not yet ended
NewProxyPool(srcs) ==
  [ proxies |-> <<>>,
    currentIndex |-> 0,
    validatedProxiesInfo |-> [u \in AllUrls |-> Undefined],
    lastFetchTime |-> 0,
    isFetching |-> FALSE,
    isValidating |-> FALSE,
    sources |-> srcs,
    fetchIdx |-> 0, fetchAcc |-> <<>>, fetchAwaited |-> FALSE,
    fetchForce |-> FALSE,
    valList |-> <<>>, valPos |-> 0, valInflight |-> {}, valAwaited |-> FALSE,
    gnpPc |-> "idle", gnpResult |-> <<>>, gnpVia |-> "none",
    probed |-> [u \in AllUrls |-> "never"],
    fetchDup |-> FALSE, dupSeen |-> FALSE,
    fetchParsed |-> {}, fetchFailed |-> FALSE,
    parsedSeen |-> {}, failSeen |-> FALSE,
    fetchPasses |-> 0, valPasses |-> 0 ]

\* the urls of this.proxies, in order
ProxyUrls(st) == [k \in 1..Len(st.proxies) |-> st.proxies[k].url]

\* validatedProxiesInfo.get(url) exists
HasInfo(st, u) == st.validatedProxiesInfo[u].lastChecked >= 0

\* the filter without the test of validationInfo.valid
WorkingProxiesAnyInfo(st) ==
  SelectSeq(ProxyUrls(st), LAMBDA u : HasInfo(st, u))

\* this.proxies.filter(p => validationInfo && validationInfo.valid), as urls
WorkingProxies(st) ==
  SelectSeq(ProxyUrls(st),
            LAMBDA u : HasInfo(st, u) /\ st.validatedProxiesInfo[u].valid)

\* ------------------------------------------------------------------------
\* ProxyPool.validateAllProxies
\* ------------------------------------------------------------------------
\* proxiesToValidate
ProxiesToValidate(st, isNewFetch, t) ==
  IF isNewFetch THEN ProxyUrls(st)
  ELSE SelectSeq(ProxyUrls(st),
                 LAMBDA u : \/ ~HasInfo(st, u)
                            \/ t - st.validatedProxiesInfo[u].lastChecked > RevalidateInterval)

\* the early returns without the test of isValidating
ValidationStartsWhileRunning(st, isNewFetch, t) ==
  /\ Len(st.proxies) > 0
  /\ Len(ProxiesToValidate(st, isNewFetch, t)) > 0

\* the call goes past its three early returns and starts a pass
ValidationStarts(st, isNewFetch, t) ==
  /\ ~st.isValidating
  /\ Len(st.proxies) > 0
  /\ Len(ProxiesToValidate(st, isNewFetch, t)) > 0

Min(a, b) == IF a < b THEN a ELSE b

\* the pass without batches: every probe is started at once
ValidateAllProxiesNoBatch(st, isNewFetch, t, awaited) ==
  IF ~ValidationStarts(st, isNewFetch, t) THEN st
  ELSE LET list == ProxiesToValidate(st, isNewFetch, t)
           end == Len(list)
       IN [st EXCEPT !.isValidating = TRUE,
                     !.valPasses = st.valPasses + 1,
                     !.valList = list,
                     !.valPos = end,
                     !.valInflight = {list[k] : k \in 1..end},
                     !.valAwaited = awaited]

\* validateAllProxies(isNewFetch), up to its first await: the probes of the
\* first batch are in flight
ValidateAllProxies(st, isNewFetch, t, awaited) ==
  IF ~ValidationStarts(st, isNewFetch, t) THEN st
  ELSE LET list == ProxiesToValidate(st, isNewFetch, t)
           end == Min(BatchSize, Len(list))
       IN [st EXCEPT !.isValidating = TRUE,
                     !.valPasses = st.valPasses + 1,
                     !.valList = list,
                     !.valPos = end,
                     !.valInflight = {list[k] : k \in 1..end},
                     !.valAwaited = awaited]

\* one probe of the batch completes: validatedProxiesInfo.set(...), and the
\* flag of the candidate of the current list when the probe succeeded
RecordProbe(st, u, valid, t) ==
  [st EXCEPT !.validatedProxiesInfo[u] = [valid |-> valid, lastChecked |-> t],
             !.proxies = [k \in 1..Len(st.proxies) |->
                            IF valid /\ st.proxies[k].url = u
                              THEN [st.proxies[k] EXCEPT !.validated = TRUE]
                              ELSE st.proxies[k]],
             !.valInflight = st.valInflight \ {u},
             !.probed[u] = IF valid THEN "valid" ELSE "invalid"]

\* the pass is over after this probe
PassEnds(st) == st.valInflight = {} /\ st.valPos >= Len(st.valList)

\* this.isValidating = false
EndPass(st) ==
  [st EXCEPT !.isValidating = FALSE, !.valList = <<>>, !.valPos = 0,
             !.valAwaited = FALSE, !.valPasses = st.valPasses - 1]

\* ------------------------------------------------------------------------
\* ProxyPool.getNextProxy
\* ------------------------------------------------------------------------
\* the result is <<url>>, or <<>> for null
Return(st, result, via) ==
  [st EXCEPT !.gnpPc = "returned", !.gnpResult = result, !.gnpVia = via]

\* the return after re-validation without this.currentIndex = 0
GetNextProxyAfterValidationKeepsIndex(st, passRan) ==
  LET newWorkingProxies == WorkingProxies(st) IN
  IF Len(newWorkingProxies) = 0
    THEN Return(st, <<>>, IF passRan THEN "passCompleted" ELSE "noPass")
    ELSE Return(st, <<newWorkingProxies[1]>>, "revalidated")

\* after await this.validateAllProxies(): newWorkingProxies
GetNextProxyAfterValidation(st, passRan) ==
  LET newWorkingProxies == WorkingProxies(st) IN
  IF Len(newWorkingProxies) = 0
    THEN Return(st, <<>>, IF passRan THEN "passCompleted" ELSE "noPass")
    ELSE Return([st EXCEPT !.currentIndex = 0], <<newWorkingProxies[1]>>, "revalidated")

\* the selection without the advance of currentIndex
GetNextProxySelectNoAdvance(st, t) ==
  IF Len(st.proxies) = 0 THEN Return(st, <<>>, "emptyPool")
  ELSE LET workingProxies == WorkingProxies(st) IN
    IF Len(workingProxies) = 0
      THEN IF ValidationStarts(st, FALSE, t)
             THEN [ValidateAllProxies(st, FALSE, t, TRUE) EXCEPT !.gnpPc = "awaitValidate"]
             ELSE GetNextProxyAfterValidation(st, FALSE)
      ELSE LET idx == st.currentIndex % Len(workingProxies)
           IN Return([st EXCEPT !.currentIndex = idx], <<workingProxies[idx + 1]>>, "roundRobin")

\* from the emptiness check on: select, or re-validate first
GetNextProxySelect(st, t) ==
  IF Len(st.proxies) = 0 THEN Return(st, <<>>, "emptyPool")
  ELSE LET workingProxies == WorkingProxies(st) IN
    IF Len(workingProxies) = 0
      THEN IF ValidationStarts(st, FALSE, t)
             THEN [ValidateAllProxies(st, FALSE, t, TRUE) EXCEPT !.gnpPc = "awaitValidate"]
             ELSE GetNextProxyAfterValidation(st, FALSE)
      ELSE LET idx == (st.currentIndex + 1) % Len(workingProxies)
           IN Return([st EXCEPT !.currentIndex = idx], <<workingProxies[idx + 1]>>, "roundRobin")

\* ------------------------------------------------------------------------
\* ProxyPool.fetchProxies
\* ------------------------------------------------------------------------
\* the early returns without the test of lastFetchTime
FetchStartsAlways(st, force, t) ==
  /\ ~st.isFetching
  /\ Len(st.sources) > 0

\* the call goes past its early returns and contacts the sources
FetchStarts(st, force, t) ==
  /\ ~st.isFetching
  /\ (force \/ ~(t - st.lastFetchTime < RefreshInterval))
  /\ Len(st.sources) > 0

\* fetchProxies(force), up to the first await
FetchProxies(st, force, t, awaited) ==
  IF ~FetchStarts(st, force, t) THEN st
  ELSE [st EXCEPT !.isFetching = TRUE, !.fetchIdx = 1, !.fetchAcc = <<>>,
                  !.fetchPasses = st.fetchPasses + 1,
                  !.fetchAwaited = awaited, !.fetchForce = force,
                  !.fetchDup = FALSE,
                  !.fetchParsed = {}, !.fetchFailed = FALSE]

\* Array.from(allFetchedProxies).map(...).filter(p => p !== null)
FormatProxies(acc) ==
  LET ok == SelectSeq(acc, UrlParses)
  IN [k \in 1..Len(ok) |-> [url |-> ok[k], validated |-> FALSE]]

\* after the last source: replace the list, then validateAllProxies(true)
\* without await
FinishFetch(st, acc, t) ==
  LET st1 == [st EXCEPT !.proxies = FormatProxies(acc),
                        !.lastFetchTime = t,
                        !.isFetching = FALSE,
                        !.fetchPasses = st.fetchPasses - 1,
                        !.fetchIdx = 0, !.fetchAcc = <<>>, !.fetchAwaited = FALSE,
                        !.fetchForce = FALSE,
                        !.dupSeen = st.fetchDup, !.fetchDup = FALSE,
                        !.parsedSeen = st.fetchParsed, !.fetchParsed = {},
                        !.failSeen = st.fetchFailed, !.fetchFailed = FALSE]
  IN IF Len(st1.proxies) > 0 THEN ValidateAllProxies(st1, TRUE, t, FALSE) ELSE st1

\* the catch of a failed source leaves the loop: what was collected is dropped
FetchFromSourceFailDrops(st, ok, text, t) ==
  LET parsed == IF ok THEN ParseProxyList(text, st.sources[st.fetchIdx].socks) ELSE <<>>
      acc == IF ok THEN AddAll(st.fetchAcc, parsed) ELSE <<>>
      st1 == [st EXCEPT !.fetchParsed = st.fetchParsed \cup {parsed[k] : k \in 1..Len(parsed)},
                        !.fetchFailed = st.fetchFailed \/ ~ok]
  IN IF ok /\ st.fetchIdx < Len(st.sources)
       THEN [st1 EXCEPT !.fetchIdx = st.fetchIdx + 1, !.fetchAcc = acc]
       ELSE LET done == FinishFetch(st1, acc, t)
            IN IF st.fetchAwaited THEN GetNextProxySelect(done, t) ELSE done

\* one source answers (or fails): parse, add to the Set; after the last
\* source the list is replaced and a getNextProxy awaiting the fetch goes on
FetchFromSource(st, ok, text, t) ==
  LET parsed == IF ok THEN ParseProxyList(text, st.sources[st.fetchIdx].socks) ELSE <<>>
      acc == AddAll(st.fetchAcc, parsed)
      dup == st.fetchDup \/ Len(acc) < Len(st.fetchAcc) + Len(parsed)
      st1 == [st EXCEPT !.fetchDup = dup,
                        !.fetchParsed = st.fetchParsed \cup {parsed[k] : k \in 1..Len(parsed)},
                        !.fetchFailed = st.fetchFailed \/ ~ok]
  IN IF st.fetchIdx < Len(st.sources)
       THEN [st1 EXCEPT !.fetchIdx = st.fetchIdx + 1, !.fetchAcc = acc]
       ELSE LET done == FinishFetch(st1, acc, t)
            IN IF st.fetchAwaited THEN GetNextProxySelect(done, t) ELSE done

\* getNextProxy(), up to its first await or its return
GetNextProxy(st, t) ==
  LET st0 == [st EXCEPT !.gnpPc = "running", !.gnpResult = <<>>, !.gnpVia = "none"] IN
  IF Len(st.proxies) = 0 /\ ~st.isFetching /\ FetchStarts(st, TRUE, t)
    THEN [FetchProxies(st0, TRUE, t, TRUE) EXCEPT !.gnpPc = "awaitFetch"]
    ELSE GetNextProxySelect(st0, t)

\* a probe completes; with the last probe of the last batch the pass ends and
\* a getNextProxy awaiting it goes on
ProbeDone(st, u, valid, t) ==
  LET st1 == RecordProbe(st, u, valid, t) IN
  IF PassEnds(st1)
    THEN IF st1.valAwaited THEN GetNextProxyAfterValidation(EndPass(st1), TRUE)
         ELSE EndPass(st1)
    ELSE st1

\* the next batch of the pass, after the pause between batches
StartBatch(st) ==
  LET end == Min(st.valPos + BatchSize, Len(st.valList)) IN
  [st EXCEPT !.valPos = end,
             !.valInflight = {st.valList[k] : k \in (st.valPos + 1)..end}]

\* ------------------------------------------------------------------------
\* ProxyPool: initial state and steps
\* ------------------------------------------------------------------------
HttpSource == [socks |-> FALSE]
SocksSource == [socks |-> TRUE]
SourceConfigs == {<<>>, <<HttpSource>>, <<HttpSource, SocksSource>>}
PoolSourceConfigs == {<<>>, <<HttpSource>>}

PoolIdle ==
  /\ proxyPool = NewProxyPool(<<>>)
  /\ poolNow = RefreshInterval

\* Date.now() is far beyond both intervals
PoolInit ==
  /\ proxyPool \in {NewProxyPool(srcs) : srcs \in PoolSourceConfigs}
  /\ poolNow = RefreshInterval

PoolTick ==
  /\ poolNow < PoolMaxClock
  /\ poolNow' = poolNow + 1
  /\ UNCHANGED proxyPool
  /\ UNCHANGED notPool

CallFetchProxies ==
  /\ \E force \in BOOLEAN :
       proxyPool' = FetchProxies(proxyPool, force, poolNow, FALSE)
  /\ UNCHANGED poolNow
  /\ UNCHANGED notPool

SourceAnswers(T) ==
  /\ proxyPool.isFetching
  /\ \E ok \in BOOLEAN : \E text \in (IF ok THEN T ELSE {<<>>}) :
       proxyPool' = FetchFromSource(proxyPool, ok, text, poolNow)
  /\ UNCHANGED poolNow

PoolSourceAnswers ==
  /\ SourceAnswers(PoolTexts)
  /\ UNCHANGED notPool

CallValidateAllProxies ==
  /\ \E isNewFetch \in BOOLEAN :
       proxyPool' = ValidateAllProxies(proxyPool, isNewFetch, poolNow, FALSE)
  /\ UNCHANGED poolNow
  /\ UNCHANGED notPool

ProbeCompletes ==
  /\ \E u \in proxyPool.valInflight : \E valid \in BOOLEAN :
       proxyPool' = ProbeDone(proxyPool, u, valid, poolNow)
  /\ UNCHANGED poolNow
  /\ UNCHANGED notPool

NextBatch ==
  /\ proxyPool.isValidating
  /\ proxyPool.valInflight = {}
  /\ proxyPool.valPos < Len(proxyPool.valList)
  /\ proxyPool' = StartBatch(proxyPool)
  /\ UNCHANGED poolNow
  /\ UNCHANGED notPool

CallGetNextProxy ==
  /\ proxyPool.gnpPc = "idle"
  /\ proxyPool' = GetNextProxy(proxyPool, poolNow)
  /\ UNCHANGED poolNow
  /\ UNCHANGED notPool

\* the caller of getNextProxy takes the result
TakeResult ==
  /\ proxyPool.gnpPc = "returned"
  /\ proxyPool' = [proxyPool EXCEPT !.gnpPc = "idle", !.gnpResult = <<>>,
                                    !.gnpVia = "none"]
  /\ UNCHANGED poolNow
  /\ UNCHANGED notPool

PoolNext ==
  \/ PoolTick \/ CallFetchProxies \/ PoolSourceAnswers \/ CallValidateAllProxies
  \/ ProbeCompletes \/ NextBatch \/ CallGetNextProxy \/ TakeResult

\* fetchProxies alone, on the full set of texts
FetchSourceAnswers ==
  /\ SourceAnswers(Texts)
  /\ UNCHANGED notPool

FetchInit ==
  /\ proxyPool \in {NewProxyPool(srcs) : srcs \in SourceConfigs}
  /\ poolNow = RefreshInterval

FetchNext == PoolTick \/ CallFetchProxies \/ FetchSourceAnswers

\* ------------------------------------------------------------------------
\* main(): initialization of the HTTP proxy pool
\* ------------------------------------------------------------------------
\* proxyPool.getStats(): workingProxies counts the valid entries of
\* validatedProxiesInfo
GetStats(st) ==
  [ totalProxies |-> Len(st.proxies),
    workingProxies |-> Cardinality({u \in AllUrls :
                          HasInfo(st, u) /\ st.validatedProxiesInfo[u].valid}) ]

\* the check without its second branch: no working proxy is only a warning
StatsVerdictWarnOnly(stats, sourcesLength) ==
  IF stats.workingProxies = 0 THEN "warn" ELSE "succeed"

\* the three branches after initProxyPool resolved
StatsVerdict(stats, sourcesLength) ==
  IF stats.workingProxies = 0 /\ (stats.totalProxies > 0 \/ sourcesLength > 0)
    THEN "warn"
  ELSE IF stats.workingProxies = 0 /\ sourcesLength = 0
    THEN "fail"
  ELSE "succeed"

\* initProxyPool resolved: read the stats, go on or exit(1)
AfterInitProxyPool(st) ==
  /\ poolInit' = "resolved"
  /\ IF StatsVerdict(GetStats(st), proxySourcesForPool) = "fail"
       THEN Exit(1) /\ UNCHANGED initialized
       ELSE pc' = "LoopHead" /\ initialized' = TRUE /\ UNCHANGED exitCode

\* await proxyPool.initProxyPool({sources, forceFetch: true}):
\* init(config), then fetchProxies(true)
InitProxyPool ==
  /\ pc = "Initializing"
  /\ proxyMode = "http"
  /\ LET st == [proxyPool EXCEPT !.sources = [k \in 1..proxySourcesForPool |-> HttpSource]]
     IN IF FetchStarts(st, TRUE, poolNow)
          THEN /\ proxyPool' = FetchProxies(st, TRUE, poolNow, FALSE)
               /\ pc' = "AwaitPoolInit"
               /\ UNCHANGED <<exitCode, initialized, poolInit>>
          ELSE /\ proxyPool' = FetchProxies(st, TRUE, poolNow, FALSE)
               /\ AfterInitProxyPool(proxyPool')
  /\ UNCHANGED <<proxyMode, backend, numViews, performLike, proxySourcesForPool,
                 i, successCount, failCount, currentProxyString, lastIp,
                 iterVars, begun, openSessions, rotations, sleeps, fatal, completed,
                 summary, logLevel, torInit, ipLog, summaryLines>>
  /\ UNCHANGED <<torVars, poolNow, watchVars, detailVars>>

\* a source answers while main awaits initProxyPool; after the last one the
\* awaited promise resolves and main reads the stats
PoolInitSourceAnswers ==
  /\ pc = "AwaitPoolInit"
  /\ SourceAnswers(PoolTexts)
  /\ IF proxyPool'.isFetching
       THEN UNCHANGED <<pc, exitCode, initialized, poolInit>>
       ELSE AfterInitProxyPool(proxyPool')
  /\ UNCHANGED <<proxyMode, backend, numViews, performLike, proxySourcesForPool,
                 i, successCount, failCount, currentProxyString, lastIp,
                 iterVars, begun, openSessions, rotations, sleeps, fatal, completed,
                 summary, logLevel, torInit, ipLog, summaryLines>>
  /\ UNCHANGED <<torVars, watchVars, detailVars>>

MainNext ==
  \/ InitTor \/ InitProxyPool \/ PoolInitSourceAnswers \/ IterationBegin
  \/ Rotate \/ VerifyIp \/ RotateFailDelay \/ CheckIp \/ HttpAcquire
  \/ Launch \/ Watch \/ Like \/ Finally \/ Pace
  \/ Completed \/ OuterCatch \/ Summary



\* ------------------------------------------------------------------------
\* main(): the watch duration of a view
\* ------------------------------------------------------------------------
\* Math.round in place of Math.floor
WatchDurationRounded(r, min, max) ==
  ((2 * r * (max - min + 1) + RandomSteps) \div (2 * RandomSteps)) + min

\* Math.floor(Math.random() * (max - min + 1)) + min, Math.random() being
\* r / RandomSteps
WatchDuration(r, min, max) ==
  ((r * (max - min + 1)) \div RandomSteps) + min

\* no view yet
WatchIdle ==
  /\ minWatchSeconds = MinWatchLimit
  /\ maxWatchSeconds = MinWatchLimit
  /\ random = 0
  /\ watchDurationSeconds = -1

\* the answers to the two prompts: min >= 10, max >= min
WatchInit ==
  /\ minWatchSeconds \in MinWatchLimit..MaxWatchSeconds
  /\ maxWatchSeconds \in minWatchSeconds..MaxWatchSeconds
  /\ random = 0
  /\ watchDurationSeconds = -1

\* const watchDurationSeconds = ..., once per iteration
ChooseWatchDuration ==
  /\ \E r \in 0..(RandomSteps - 1) :
       /\ random' = r
       /\ watchDurationSeconds' = WatchDuration(r, minWatchSeconds, maxWatchSeconds)
  /\ UNCHANGED <<minWatchSeconds, maxWatchSeconds>>
  /\ UNCHANGED notWatch

\* ------------------------------------------------------------------------
\* ProxyPool.getNextProxy: the order of the endpoints it returns
\* ------------------------------------------------------------------------
SelectIdle ==
  /\ lastSelected = <<>>
  /\ selectRun = 0

\* the call returns an endpoint in the step from st to st2
Selects(st, st2) ==
  st.gnpPc # "returned" /\ st2.gnpPc = "returned" /\ st2.gnpResult # <<>>

\* the validated candidates are the same list before and after the step
SameWorkingProxies(st, st2) == WorkingProxies(st2) = WorkingProxies(st)

\* one step of the pool, with the record of what was returned: the record
\* starts again whenever the validated candidates change
SelectStep(st2) ==
  /\ proxyPool' = st2
  /\ UNCHANGED poolNow
  /\ IF Selects(proxyPool, st2)
       THEN /\ lastSelected' = st2.gnpResult
            /\ selectRun' = IF SameWorkingProxies(proxyPool, st2)
                              THEN Min(selectRun + 1, MaxRun) ELSE 1
       ELSE IF SameWorkingProxies(proxyPool, st2)
         THEN UNCHANGED <<lastSelected, selectRun>>
         ELSE lastSelected' = <<>> /\ selectRun' = 0
  /\ UNCHANGED notSelect

SelectInit ==
  /\ proxyPool = NewProxyPool(<<HttpSource>>)
  /\ poolNow = RefreshInterval
  /\ SelectIdle

SelectFetchProxies ==
  \E force \in BOOLEAN : SelectStep(FetchProxies(proxyPool, force, poolNow, FALSE))

SelectSourceAnswers ==
  /\ proxyPool.isFetching
  /\ \E ok \in BOOLEAN : \E text \in (IF ok THEN SelectTexts ELSE {<<>>}) :
       SelectStep(FetchFromSource(proxyPool, ok, text, poolNow))

SelectValidateAllProxies ==
  \E isNewFetch \in BOOLEAN :
    SelectStep(ValidateAllProxies(proxyPool, isNewFetch, poolNow, FALSE))

SelectProbeCompletes ==
  \E u \in proxyPool.valInflight : \E valid \in BOOLEAN :
    SelectStep(ProbeDone(proxyPool, u, valid, poolNow))

SelectNextBatch ==
  /\ proxyPool.isValidating
  /\ proxyPool.valInflight = {}
  /\ proxyPool.valPos < Len(proxyPool.valList)
  /\ SelectStep(StartBatch(proxyPool))

SelectGetNextProxy ==
  /\ proxyPool.gnpPc = "idle"
  /\ SelectStep(GetNextProxy(proxyPool, poolNow))

SelectTakeResult ==
  /\ proxyPool.gnpPc = "returned"
  /\ SelectStep([proxyPool EXCEPT !.gnpPc = "idle", !.gnpResult = <<>>,
                                  !.gnpVia = "none"])

SelectNext ==
  \/ SelectFetchProxies \/ SelectSourceAnswers \/ SelectValidateAllProxies
  \/ SelectProbeCompletes \/ SelectNextBatch \/ SelectGetNextProxy
  \/ SelectTakeResult

\* ------------------------------------------------------------------------
\* TorManager.sendControlCommand: one call, event by event
\* ------------------------------------------------------------------------
Hosts == {"127.0.0.1", "10.0.0.7"}
Secrets == {"", "secret"}

\* torConfigForModule, the object main passes to initTor
TorConfigs == [host : Hosts, port : {"9050"},
               controlHost : Hosts, controlPort : {"9051"},
               password : Secrets]
DefaultTorConfig == [host |-> "127.0.0.1", port |-> "9050",
                     controlHost |-> "127.0.0.1", controlPort |-> "9051",
                     password |-> ""]

\* obj.key: undefined for a property the object does not have
Property(obj, key) == IF key \in DOMAIN obj THEN obj[key] ELSE "undefined"
\* if (value) on a string or undefined
Truthy(v) == v \notin {"undefined", ""}

\* socket.connect(cfg.controlPort, cfg.host, ...): <<host, port>>
ConnectTarget(cfg) == <<Property(cfg, "host"), Property(cfg, "controlPort")>>

\* the first line written
AuthenticateLine(cfg) ==
  IF Truthy(Property(cfg, "controlPassword"))
    THEN <<"AUTHENTICATE", Property(cfg, "controlPassword")>>
    ELSE <<"AUTHENTICATE">>

\* the three writes of the connect callback, in order
ControlWrites(cfg, command) == <<AuthenticateLine(cfg), <<command>>, <<"QUIT">>>>

\* what a 'data' event can carry; the token may arrive split over two chunks
Chunks ==
  {"250 OK", "250 ", "OK", "515 Authentication failed", "510 Unrecognized command"}

\* the reply lines of the control port in the order they arrived: the
\* server answers the lines written in order, one reply line each; a reply
\* split over two chunks is one line
RECURSIVE ReplyLines(_)
ReplyLines(r) ==
  IF r = <<>> THEN <<>>
  ELSE IF Len(r) >= 2 /\ r[1] = "250 " /\ r[2] = "OK"
    THEN <<"250 OK">> \o ReplyLines(SubSeq(r, 3, Len(r)))
  ELSE <<r[1]>> \o ReplyLines(Tail(r))

\* the reply to the second line written, the command, is 250 OK
CommandAcknowledged(r) ==
  Len(ReplyLines(r)) >= 2 /\ ReplyLines(r)[2] = "250 OK"

\* response.includes('250 OK') on the chunks concatenated so far
Includes250OK(r) ==
  \E k \in 1..Len(r) :
    \/ r[k] = "250 OK"
    \/ k < Len(r) /\ r[k] = "250 " /\ r[k + 1] = "OK"

NoError == [kind |-> "none", response |-> <<>>]

\* the 'close' handler looking at the last chunk only
CloseSettlesLastChunk(r) ==
  IF Len(r) > 0 /\ r[Len(r)] = "250 OK"
    THEN [settled |-> "resolved", errorMessage |-> NoError]
    ELSE [settled |-> "rejected",
          errorMessage |-> [kind |-> "Control command failed", response |-> r]]

\* the 'close' handler: resolve(response) or reject(new Error(... response))
CloseSettles(r) ==
  IF Includes250OK(r)
    THEN [settled |-> "resolved", errorMessage |-> NoError]
    ELSE [settled |-> "rejected",
          errorMessage |-> [kind |-> "Control command failed", response |-> r]]

\* no call yet
ControlIdle ==
  /\ torConfig = DefaultTorConfig
  /\ socket = "none" /\ connectedTo = <<>> /\ written = <<>> /\ response = <<>>
  /\ settled = "none" /\ errorMessage = NoError

\* after initTor(torConfig): this.torConfig is the object of main
ControlInit ==
  /\ torConfig \in TorConfigs
  /\ socket = "none" /\ connectedTo = <<>> /\ written = <<>> /\ response = <<>>
  /\ settled = "none" /\ errorMessage = NoError

\* sendControlCommand('NEWNYM'): new socket, setTimeout, connect, handlers
NewSocket ==
  /\ socket \in {"none", "closed"}
  /\ socket' = "connecting"
  /\ connectedTo' = ConnectTarget(torConfig)
  /\ written' = <<>>
  /\ response' = <<>>
  /\ settled' = "pending"
  /\ errorMessage' = NoError
  /\ UNCHANGED torConfig
  /\ UNCHANGED notControl

\* the connect callback
OnConnect ==
  /\ socket = "connecting"
  /\ socket' = "open"
  /\ written' = ControlWrites(torConfig, "NEWNYM")
  /\ UNCHANGED <<torConfig, connectedTo, response, settled, errorMessage>>
  /\ UNCHANGED notControl

\* socket.on('data'): response += data.toString()
OnData ==
  /\ socket = "open"
  /\ Len(response) < MaxChunks
  /\ \E data \in Chunks : response' = Append(response, data)
  /\ UNCHANGED <<torConfig, socket, connectedTo, written, settled, errorMessage>>
  /\ UNCHANGED notControl

\* socket.on('error'): reject; the socket is destroyed and 'close' follows
OnError ==
  /\ socket \in {"connecting", "open"}
  /\ socket' = "errored"
  /\ IF settled = "pending"
       THEN /\ settled' = "rejected"
            /\ errorMessage' = [kind |-> "Control connection error", response |-> <<>>]
       ELSE UNCHANGED <<settled, errorMessage>>
  /\ UNCHANGED <<torConfig, connectedTo, written, response>>
  /\ UNCHANGED notControl

\* socket.on('timeout'): socket.destroy(), reject; 'close' follows
OnTimeout ==
  /\ socket \in {"connecting", "open"}
  /\ socket' = "destroyed"
  /\ IF settled = "pending"
       THEN /\ settled' = "rejected"
            /\ errorMessage' = [kind |-> "Control command timeout", response |-> <<>>]
       ELSE UNCHANGED <<settled, errorMessage>>
  /\ UNCHANGED <<torConfig, connectedTo, written, response>>
  /\ UNCHANGED notControl

\* socket.on('close'): a promise already settled stays as it is
OnClose ==
  /\ socket \in {"open", "errored", "destroyed"}
  /\ socket' = "closed"
  /\ IF settled = "pending"
       THEN /\ settled' = CloseSettles(response).settled
            /\ errorMessage' = CloseSettles(response).errorMessage
       ELSE UNCHANGED <<settled, errorMessage>>
  /\ UNCHANGED <<torConfig, connectedTo, written, response>>
  /\ UNCHANGED notControl

ControlNext ==
  \/ NewSocket \/ OnConnect \/ OnData \/ OnError \/ OnTimeout \/ OnClose

\* ------------------------------------------------------------------------
\* TorManager.initTor with ensureTorRunning
\* ------------------------------------------------------------------------
\* getTorBinaryPath() and fs.existsSync: no torPath configured, a path to a
\* file that does not exist, a path to a file that exists
TorPaths == {"null", "missing", "exists"}

\* the binary is looked for in any place at all
TorBinaryFoundIfConfigured(p) == p # "null"

\* !(!torPath || !fs.existsSync(torPath))
TorBinaryFound(p) == p = "exists"

\* no initTor call
InitTorIdle ==
  /\ torPath = "null" /\ initPc = "idle" /\ pollIndex = 0 /\ probes = 0
  /\ reached = FALSE /\ isInitialized = FALSE /\ initResult = "none"

InitTorStart ==
  /\ torPath \in TorPaths /\ initPc = "idle" /\ pollIndex = 0 /\ probes = 0
  /\ reached = FALSE /\ isInitialized = FALSE /\ initResult = "none"

\* initTor(torConfig) -> ensureTorRunning(host, port) -> isTorRunning
CallInitTor ==
  /\ initPc = "idle"
  /\ initPc' = "firstProbe"
  /\ UNCHANGED <<torPath, pollIndex, probes, reached, isInitialized, initResult>>
  /\ UNCHANGED notInitTor

\* the first isTorRunning resolves: return, throw 'Tor binary not found', or
\* spawn the daemon and enter the loop
FirstProbe ==
  /\ initPc = "firstProbe"
  /\ probes' = probes + 1
  /\ \E running \in BOOLEAN :
       /\ reached' = (reached \/ running)
       /\ IF running
            THEN initPc' = "checkTorStatus" /\ UNCHANGED initResult
            ELSE IF ~TorBinaryFound(torPath)
              THEN initPc' = "done" /\ initResult' = "Tor binary not found"
              ELSE initPc' = "poll" /\ UNCHANGED initResult
  /\ UNCHANGED <<torPath, pollIndex, isInitialized>>
  /\ UNCHANGED notInitTor

\* if (await isTorRunning(host, port)) return; else await delay(1000)
PollProbe ==
  /\ initPc = "poll"
  /\ probes' = probes + 1
  /\ \E running \in BOOLEAN :
       /\ reached' = (reached \/ running)
       /\ initPc' = IF running THEN "checkTorStatus" ELSE "delay"
  /\ UNCHANGED <<torPath, pollIndex, isInitialized, initResult>>
  /\ UNCHANGED notInitTor

\* the delay is over: i++, test i < 10, or throw 'Failed to start Tor'
PollDelay ==
  /\ initPc = "delay"
  /\ pollIndex' = pollIndex + 1
  /\ IF pollIndex + 1 < ReadinessPolls
       THEN initPc' = "poll" /\ UNCHANGED initResult
       ELSE initPc' = "done" /\ initResult' = "Failed to start Tor"
  /\ UNCHANGED <<torPath, probes, reached, isInitialized>>
  /\ UNCHANGED notInitTor

\* await this.checkTorStatus(): isInitialized = true, or the error is rethrown
CheckTorStatus ==
  /\ initPc = "checkTorStatus"
  /\ initPc' = "done"
  /\ \E ok \in BOOLEAN :
       /\ reached' = (reached \/ ok)
       /\ isInitialized' = ok
       /\ initResult' = IF ok THEN "true" ELSE "Tor connection failed"
  /\ UNCHANGED <<torPath, pollIndex, probes>>
  /\ UNCHANGED notInitTor

InitTorNext ==
  \/ CallInitTor \/ FirstProbe \/ PollProbe \/ PollDelay \/ CheckTorStatus

\* ------------------------------------------------------------------------
\* browser.launchBrowser, attempt by attempt
\* ------------------------------------------------------------------------
\* what config.backend can hold: absent, one of the two names the setup
\* writes, or another string
ConfiguredBackends == {"undefined", Puppeteer, Selenium, "Firefox"}

\* getBackend(): config.backend || 'Chromium/Puppeteer'
GetBackend(c) == IF c = "undefined" THEN Puppeteer ELSE c

\* no call yet
LaunchIdle ==
  /\ configBackend = "undefined"
  /\ launchEnv = [selImport |-> "ok", selBuild |-> "ok", pup |-> "ok"]
  /\ launchPc = "idle" /\ launchBackend = "undefined"
  /\ attempted = <<>> /\ fallbacks = 0 /\ launchReturn = "none"

LaunchInit ==
  /\ configBackend \in ConfiguredBackends
  /\ launchEnv \in LaunchEnvs
  /\ launchPc = "idle" /\ launchBackend = "undefined"
  /\ attempted = <<>> /\ fallbacks = 0 /\ launchReturn = "none"

\* let backend = getBackend(), and the branch it selects; a name that is
\* neither backend falls through to 'No valid backend available' and exit(1)
CallLaunchBrowser ==
  /\ launchPc = "idle"
  /\ launchBackend' = GetBackend(configBackend)
  /\ IF GetBackend(configBackend) = Selenium
       THEN launchPc' = "selenium" /\ UNCHANGED launchReturn
     ELSE IF GetBackend(configBackend) = Puppeteer
       THEN launchPc' = "puppeteer" /\ UNCHANGED launchReturn
     ELSE launchPc' = "exited" /\ launchReturn' = "exit"
  /\ UNCHANGED <<configBackend, launchEnv, attempted, fallbacks>>
  /\ UNCHANGED notLaunch

\* the first try block: import('./selenium.js') and launchSeleniumBrowser;
\* the catch logs 'Trying Puppeteer as fallback' and sets backend
SeleniumAttempt ==
  /\ launchPc = "selenium"
  /\ attempted' = Append(attempted, Selenium)
  /\ IF launchEnv.selImport = "ok"
       THEN /\ launchPc' = "returned"
            /\ launchReturn' = LaunchSeleniumBrowser(launchEnv).kind
            /\ UNCHANGED <<launchBackend, fallbacks>>
       ELSE /\ launchPc' = "puppeteer"
            /\ launchBackend' = Puppeteer
            /\ fallbacks' = fallbacks + 1
            /\ UNCHANGED launchReturn
  /\ UNCHANGED <<configBackend, launchEnv>>
  /\ UNCHANGED notLaunch

\* the second try block: puppeteer.launch and newPage; the catch logs
\* 'Trying Selenium as fallback'
PuppeteerAttempt ==
  /\ launchPc = "puppeteer"
  /\ attempted' = Append(attempted, Puppeteer)
  /\ IF launchEnv.pup = "ok"
       THEN /\ launchPc' = "returned"
            /\ launchReturn' = "puppeteer"
            /\ UNCHANGED fallbacks
       ELSE /\ launchPc' = "seleniumFallback"
            /\ fallbacks' = fallbacks + 1
            /\ UNCHANGED launchReturn
  /\ UNCHANGED <<configBackend, launchEnv, launchBackend>>
  /\ UNCHANGED notLaunch

\* the try block inside the catch: import('./selenium.js') again; its catch
\* logs 'Both Puppeteer and Selenium backends failed' and calls exit(1)
SeleniumFallback ==
  /\ launchPc = "seleniumFallback"
  /\ attempted' = Append(attempted, Selenium)
  /\ IF launchEnv.selImport = "ok"
       THEN /\ launchPc' = "returned"
            /\ launchReturn' = LaunchSeleniumBrowser(launchEnv).kind
       ELSE /\ launchPc' = "exited"
            /\ launchReturn' = "exit"
  /\ UNCHANGED <<configBackend, launchEnv, launchBackend, fallbacks>>
  /\ UNCHANGED notLaunch

LaunchNext ==
  \/ CallLaunchBrowser \/ SeleniumAttempt \/ PuppeteerAttempt \/ SeleniumFallback

\* ------------------------------------------------------------------------
\* main(): the number of views
\* ------------------------------------------------------------------------
\* a JavaScript number, NaN, or undefined
Num(n) == [kind |-> "number", n |-> n]
NaN == [kind |-> "NaN", n |-> 0]
NoValue == [kind |-> "undefined", n |-> 0]

\* if (v) on a number, NaN or undefined: 0, NaN and undefined are falsy
TruthyNumber(v) == v.kind = "number" /\ v.n # 0

DigitChars == {"0", "1", "2", "3", "4", "5", "6", "7", "8", "9"}
DigitValue ==
  ("0" :> 0) @@ ("1" :> 1) @@ ("2" :> 2) @@ ("3" :> 3) @@ ("4" :> 4) @@
  ("5" :> 5) @@ ("6" :> 6) @@ ("7" :> 7) @@ ("8" :> 8) @@ ("9" :> 9)

\* the longest prefix of digits
RECURSIVE DigitPrefix(_)
DigitPrefix(cs) ==
  IF cs = <<>> \/ cs[1] \notin DigitChars THEN <<>>
  ELSE <<DigitValue[cs[1]]>> \o DigitPrefix(Tail(cs))

\* parseInt(val) on the characters of val: an optional sign, then the digits
\* up to the first other character; NaN when there is no digit
JsParseInt(cs) ==
  LET neg == cs # <<>> /\ cs[1] = "-"
      ds == DigitPrefix(IF neg THEN Tail(cs) ELSE cs)
  IN IF ds = <<>> THEN NaN
     ELSE Num(IF neg THEN 0 - ParseInt(ds) ELSE ParseInt(ds))

\* the texts given with -n/--views
ViewsTexts ==
  { <<"a", "b", "c">>, <<"0">>, <<"1">>, <<"7">>, <<"1", "0", "0", "0">>,
    <<"1", "0", "0", "1">>, <<"5", "0", "0", "0">>, <<"-", "5">>,
    <<"3", ".", "7">>, <<"1", "2", "a">> }

\* Number.isInteger(v) && v > 0 && v <= 1000
ViewsInRange(v) == v.kind = "number" /\ v.n > 0 /\ v.n <= ViewsLimit

\* what the user can type at the numViews question (whole numbers)
PromptInputs == {-1, 0, 1, 2, 10, ViewsLimit, ViewsLimit + 1}

\* when: of the numViews question
NumViewsAsked(v) == ~TruthyNumber(v) \/ ~ViewsInRange(v)

\* numViews: cliOpts.views || promptedOptions.numViews
FinalNumViews(cli, prompted) ==
  IF TruthyNumber(cli) THEN cli ELSE prompted

OptionsIdle ==
  /\ viewsArg = [given |-> FALSE, text |-> <<>>]
  /\ cliViews = NoValue
  /\ optPc = "idle" /\ promptAsked = FALSE
  /\ promptedNumViews = NoValue
  /\ finalNumViews = NoValue
  /\ iterations = 0

OptionsInit ==
  /\ viewsArg \in {[given |-> FALSE, text |-> <<>>]}
                    \cup {[given |-> TRUE, text |-> t] : t \in ViewsTexts}
  /\ cliViews = NoValue
  /\ optPc = "idle" /\ promptAsked = FALSE
  /\ promptedNumViews = NoValue
  /\ finalNumViews = NoValue
  /\ iterations = 0

\* program.option('-n, --views <number>', ..., (val) => parseInt(val))
ParseArgs ==
  /\ optPc = "idle"
  /\ optPc' = "prompt"
  /\ cliViews' = IF viewsArg.given THEN JsParseInt(viewsArg.text) ELSE NoValue
  /\ UNCHANGED <<viewsArg, promptAsked, promptedNumViews, finalNumViews, iterations>>
  /\ UNCHANGED notOptions

\* inquirer.prompt(questions): the numViews question is shown under its
\* when:, and only an answer that passes validate is accepted
PromptNumViews ==
  /\ optPc = "prompt"
  /\ optPc' = "build"
  /\ promptAsked' = NumViewsAsked(cliViews)
  /\ IF NumViewsAsked(cliViews)
       THEN \E input \in {x \in PromptInputs : ViewsInRange(Num(x))} :
              promptedNumViews' = Num(input)
       ELSE UNCHANGED promptedNumViews
  /\ UNCHANGED <<viewsArg, cliViews, finalNumViews, iterations>>
  /\ UNCHANGED notOptions

\* const finalOptions = { ..., numViews: cliOpts.views || promptedOptions.numViews }
BuildFinalOptions ==
  /\ optPc = "build"
  /\ optPc' = "loop"
  /\ finalNumViews' = FinalNumViews(cliViews, promptedNumViews)
  /\ UNCHANGED <<viewsArg, cliViews, promptAsked, promptedNumViews, iterations>>
  /\ UNCHANGED notOptions

\* for (let i = 0; i < finalOptions.numViews; i++): one pass of the body
LoopPass ==
  /\ optPc = "loop"
  /\ iterations < MaxPasses
  /\ finalNumViews.kind = "number" /\ iterations < finalNumViews.n
  /\ iterations' = iterations + 1
  /\ UNCHANGED <<viewsArg, cliViews, optPc, promptAsked, promptedNumViews, finalNumViews>>
  /\ UNCHANGED notOptions

\* i < finalOptions.numViews is false: the loop is left
LoopEnd ==
  /\ optPc = "loop"
  /\ ~(finalNumViews.kind = "number" /\ iterations < finalNumViews.n)
  /\ optPc' = "done"
  /\ UNCHANGED <<viewsArg, cliViews, promptAsked, promptedNumViews, finalNumViews, iterations>>
  /\ UNCHANGED notOptions

OptionsNext ==
  \/ ParseArgs \/ PromptNumViews \/ BuildFinalOptions \/ LoopPass \/ LoopEnd

\* ------------------------------------------------------------------------
\* withRetry
\* ------------------------------------------------------------------------
\* what one call of fn can end in: a value returned or an error thrown
FnOutcomes ==
  [kind : {"returns"}, v : {"r1", "r2"}] \cup [kind : {"throws"}, v : {"e1", "e2"}]

\* delayMs * (i + 1) at every retry
RetryDelayFlat(d, k) == d

\* delayMs * (i + 1)
RetryDelay(d, k) == d * (k + 1)

RetryIdle ==
  /\ maxRetries = 0 /\ delayMs = 0
  /\ retryPc = "idle" /\ retryI = 0
  /\ fnCalls = <<>> /\ waits = <<>> /\ lastError = "undefined"
  /\ retryResult = [kind |-> "none", v |-> "undefined"]

\* withRetry(fn, maxRetries, delayMs); the wrapped function is not called yet
RetryInit ==
  /\ maxRetries \in (0 - 1)..MaxRetriesArg
  /\ delayMs \in 0..MaxDelayMs
  /\ retryPc = "idle" /\ retryI = 0
  /\ fnCalls = <<>> /\ waits = <<>> /\ lastError = "undefined"
  /\ retryResult = [kind |-> "none", v |-> "undefined"]

\* the wrapped function is called: i = 0 and, when 0 <= maxRetries, the first
\* fn.apply; otherwise the loop is skipped and lastError is thrown
CallWrapped ==
  /\ retryPc = "idle"
  /\ retryI' = 0
  /\ IF 0 <= maxRetries
       THEN retryPc' = "calling" /\ UNCHANGED retryResult
       ELSE /\ retryPc' = "done"
            /\ retryResult' = [kind |-> "thrown", v |-> lastError]
  /\ UNCHANGED <<maxRetries, delayMs, fnCalls, waits, lastError>>
  /\ UNCHANGED notRetry

\* await fn.apply(this, args) settles: return its value, or catch the error,
\* and then either start the delay or leave the loop and throw lastError
FnSettles ==
  /\ retryPc = "calling"
  /\ \E o \in FnOutcomes :
       /\ fnCalls' = Append(fnCalls, o)
       /\ IF o.kind = "returns"
            THEN /\ retryPc' = "done"
                 /\ retryResult' = [kind |-> "returned", v |-> o.v]
                 /\ UNCHANGED <<waits, lastError>>
            ELSE /\ lastError' = o.v
                 /\ IF retryI < maxRetries
                      THEN /\ retryPc' = "delaying"
                           /\ waits' = Append(waits, RetryDelay(delayMs, retryI))
                           /\ UNCHANGED retryResult
                      ELSE /\ retryPc' = "done"
                           /\ retryResult' = [kind |-> "thrown", v |-> o.v]
                           /\ UNCHANGED waits
  /\ UNCHANGED <<maxRetries, delayMs, retryI>>
  /\ UNCHANGED notRetry

\* the delay ends: i++, i <= maxRetries holds, fn is called again
DelayEnds ==
  /\ retryPc = "delaying"
  /\ retryI' = retryI + 1
  /\ retryPc' = "calling"
  /\ UNCHANGED <<maxRetries, delayMs, fnCalls, waits, lastError, retryResult>>
  /\ UNCHANGED notRetry

RetryNext == CallWrapped \/ FnSettles \/ DelayEnds

\* ------------------------------------------------------------------------
\* RateLimiter
\* ------------------------------------------------------------------------
\* the filter of canMakeCall keeping a timestamp whose age equals windowMs
KeepsTimestampInclusive(t, ts, w) == t - ts <= w

\* ts => now - ts < this.windowMs
KeepsTimestamp(t, ts, w) == t - ts < w

\* this.calls.filter(ts => now - ts < this.windowMs)
FilterCalls(cs, t, w) == SelectSeq(cs, LAMBDA ts : KeepsTimestamp(t, ts, w))

\* Math.min(...this.calls) on a non-empty array
MinOfCalls(cs) == CHOOSE m \in {cs[k] : k \in 1..Len(cs)} :
                    \A k \in 1..Len(cs) : m <= cs[k]

NoOp == [op |-> "none", ok |-> FALSE, wait |-> 0, at |-> 0, due |-> FALSE]

LimiterIdle ==
  /\ maxCalls = 1 /\ windowMs = 1
  /\ calls = <<>> /\ limNow = 0 /\ granted = <<>>
  /\ lastOp = NoOp /\ waitUntil = 0 - 1

\* new RateLimiter(maxCalls, windowMs) with positive whole arguments
LimiterInit ==
  /\ maxCalls \in 1..MaxCallsArg
  /\ windowMs \in 1..MaxWindowMs
  /\ calls = <<>> /\ limNow = 0 /\ granted = <<>>
  /\ lastOp = NoOp /\ waitUntil = 0 - 1

\* time passes between two calls
LimiterTick ==
  /\ limNow < LimiterMaxClock
  /\ limNow' = limNow + 1
  /\ UNCHANGED <<maxCalls, windowMs, calls, granted, lastOp, waitUntil>>
  /\ UNCHANGED notLimiter

\* canMakeCall(): drop the expired timestamps, compare the rest with maxCalls
CanMakeCall ==
  /\ calls' = FilterCalls(calls, limNow, windowMs)
  /\ lastOp' = [op |-> "canMakeCall", ok |-> Len(calls') < maxCalls, wait |-> 0,
                at |-> limNow, due |-> FALSE]
  /\ UNCHANGED <<maxCalls, windowMs, limNow, granted, waitUntil>>
  /\ UNCHANGED notLimiter

\* makeCall(): if canMakeCall() push Date.now() and return true, else false
MakeCall ==
  /\ LET kept == FilterCalls(calls, limNow, windowMs)
         ok == Len(kept) < maxCalls
     IN /\ calls' = IF ok THEN Append(kept, limNow) ELSE kept
        /\ granted' = IF ok THEN Append(granted, limNow) ELSE granted
        /\ lastOp' = [op |-> "makeCall", ok |-> ok, wait |-> 0, at |-> limNow,
                      due |-> waitUntil >= 0 /\ limNow >= waitUntil]
  /\ waitUntil' = 0 - 1
  /\ UNCHANGED <<maxCalls, windowMs, limNow>>
  /\ UNCHANGED notLimiter

\* getWaitTime(): 0 if canMakeCall(), else windowMs - (now - earliest)
GetWaitTime ==
  /\ LET kept == FilterCalls(calls, limNow, windowMs)
         ok == Len(kept) < maxCalls
         wait == IF ok THEN 0 ELSE windowMs - (limNow - MinOfCalls(kept))
     IN /\ calls' = kept
        /\ lastOp' = [op |-> "getWaitTime", ok |-> ok, wait |-> wait, at |-> limNow,
                      due |-> FALSE]
        /\ waitUntil' = IF ok THEN 0 - 1 ELSE limNow + wait
  /\ UNCHANGED <<maxCalls, windowMs, limNow, granted>>
  /\ UNCHANGED notLimiter

LimiterNext == LimiterTick \/ CanMakeCall \/ MakeCall \/ GetWaitTime

\* ------------------------------------------------------------------------
\* Specifications
\* ------------------------------------------------------------------------
UtilIdle == LaunchIdle /\ OptionsIdle /\ RetryIdle /\ LimiterIdle

DetailIdle == SelectIdle /\ ControlIdle /\ InitTorIdle /\ UtilIdle

Init == MainInit /\ TorInit /\ PoolIdle /\ WatchIdle /\ DetailIdle
Next == MainNext
Spec == Init /\ [][Next]_vars

MainIdle ==
  /\ proxyMode = "tor" /\ backend = Puppeteer /\ numViews = 1
  /\ performLike = FALSE /\ proxySourcesForPool = 0 /\ logLevel = "undefined"
  /\ pc = "Initializing" /\ i = 0 /\ successCount = 0 /\ failCount = 0
  /\ currentProxyString = "null" /\ lastIp = "null"
  /\ browserInstance = "null" /\ page = "null" /\ exitCode = -1
  /\ initialized = FALSE /\ poolInit = "none" /\ begun = 0 /\ failAtBegin = 0 /\ ctlFailed = FALSE
  /\ launched = FALSE /\ closes = 0 /\ openSessions = 0 /\ rotations = 0
  /\ sleeps = 0 /\ fatal = FALSE /\ completed = FALSE /\ summary = FALSE
  /\ torInit = "none" /\ ipLog = <<>> /\ ipWarn = FALSE /\ summaryLines = {}

InitTorManager == MainIdle /\ TorInit /\ PoolIdle /\ WatchIdle /\ DetailIdle
NextTor == TorNext
SpecTor == InitTorManager /\ [][NextTor]_vars

InitPool == MainIdle /\ TorInit /\ PoolInit /\ WatchIdle /\ DetailIdle
NextPool == PoolNext
SpecPool == InitPool /\ [][NextPool]_vars

InitFetch == MainIdle /\ TorInit /\ FetchInit /\ WatchIdle /\ DetailIdle
NextFetch == FetchNext
SpecFetch == InitFetch /\ [][NextFetch]_vars

InitWatch == MainIdle /\ TorInit /\ PoolIdle /\ WatchInit /\ DetailIdle
NextWatch == ChooseWatchDuration
SpecWatch == InitWatch /\ [][NextWatch]_vars

InitSelect ==
  /\ MainIdle /\ TorInit /\ WatchIdle /\ ControlIdle /\ InitTorIdle /\ UtilIdle
  /\ SelectInit
NextSelect == SelectNext
SpecSelect == InitSelect /\ [][NextSelect]_vars

InitControl ==
  /\ MainIdle /\ TorInit /\ PoolIdle /\ WatchIdle /\ SelectIdle /\ InitTorIdle
  /\ UtilIdle
  /\ ControlInit
NextControl == ControlNext
SpecControl == InitControl /\ [][NextControl]_vars

\* every pending socket event and timer of initTor eventually fires
InitInitTor ==
  /\ MainIdle /\ TorInit /\ PoolIdle /\ WatchIdle /\ SelectIdle /\ UtilIdle
  /\ ControlInit /\ InitTorStart
NextInitTor == InitTorNext
SpecInitTor == InitInitTor /\ [][NextInitTor]_vars /\ WF_vars(NextInitTor)

InitLaunch ==
  /\ MainIdle /\ TorInit /\ PoolIdle /\ WatchIdle
  /\ SelectIdle /\ ControlIdle /\ InitTorIdle
  /\ LaunchInit /\ OptionsIdle /\ RetryIdle /\ LimiterIdle
NextLaunch == LaunchNext
SpecLaunch == InitLaunch /\ [][NextLaunch]_vars

InitOptions ==
  /\ MainIdle /\ TorInit /\ PoolIdle /\ WatchIdle
  /\ SelectIdle /\ ControlIdle /\ InitTorIdle
  /\ LaunchIdle /\ OptionsInit /\ RetryIdle /\ LimiterIdle
NextOptions == OptionsNext
SpecOptions == InitOptions /\ [][NextOptions]_vars

InitRetry ==
  /\ MainIdle /\ TorInit /\ PoolIdle /\ WatchIdle
  /\ SelectIdle /\ ControlIdle /\ InitTorIdle
  /\ LaunchIdle /\ OptionsIdle /\ RetryInit /\ LimiterIdle
NextRetry == RetryNext
SpecRetry == InitRetry /\ [][NextRetry]_vars

InitLimiter ==
  /\ MainIdle /\ TorInit /\ PoolIdle /\ WatchIdle
  /\ SelectIdle /\ ControlIdle /\ InitTorIdle
  /\ LaunchIdle /\ OptionsIdle /\ RetryIdle /\ LimiterInit
NextLimiter == LimiterNext
SpecLimiter == InitLimiter /\ [][NextLimiter]_vars

\* ------------------------------------------------------------------------
\* Claims about the main loop
\* ------------------------------------------------------------------------

\* C1: at the end of every iteration the session was closed exactly once if
\* launchBrowser returned a usable handle in that iteration, and not at all
\* otherwise.
C1_ClosedExactlyOncePerLaunch ==
  pc = "Pace" => closes = (IF launched THEN 1 ELSE 0)

\* C2: no error raised in an iteration body reaches the outer 'Fatal error'
\* handler.
C2_NoIterationErrorReachesFatalHandler ==
  pc # "OuterCatch" /\ ~fatal

\* C3: a run that passed initialization has, when the process ends, begun
\* exactly numViews iterations and reached Completed ('All views processed').
C3_AllIterationsThenCompleted ==
  (pc = "exited" /\ initialized) => (begun = numViews /\ completed)

\* C4: the exit status is 0 after a run in which all iterations were processed
\* and non-zero after an initialization failure or an aborted run.
C4_ExitStatus ==
  pc = "exited" => (exitCode = 0 <=> completed)

\* C5: when the renew-identity command of this iteration's rotateIP failed, the
\* loop is in its rotation-failure handler with the failure counted exactly
\* once and no session launched.
C5_RotationFailureCounted ==
  ctlFailed => /\ pc = "RotateFailDelay"
               /\ failCount = failAtBegin + 1
               /\ ~launched

\* ------------------------------------------------------------------------
\* Claims about TorManager
\* ------------------------------------------------------------------------

\* C6: two consecutive NEWNYM commands are sent at least minRotationInterval
\* apart.
C6_NewnymGapAtLeastMinInterval ==
  prevSent >= 0 => lastSent - prevSent >= MinRotationInterval

\* ------------------------------------------------------------------------
\* Claims about ProxyPool
\* ------------------------------------------------------------------------
GetNextProxyReturns ==
  proxyPool.gnpPc # "returned" /\ proxyPool'.gnpPc = "returned"

\* C7: whenever getNextProxy returns an endpoint, that endpoint is in the
\* candidate list of that moment and the latest completed probe of it
\* succeeded.
C7_ReturnedProxyIsValidatedCandidate ==
  [][ (GetNextProxyReturns /\ proxyPool'.gnpResult # <<>>) =>
        /\ \E k \in 1..Len(proxyPool'.proxies) :
             proxyPool'.proxies[k].url = proxyPool'.gnpResult[1]
        /\ proxyPool'.probed[proxyPool'.gnpResult[1]] = "valid" ]_vars

C7_Witness ==
  /\ proxyPool.gnpPc = "returned"
  /\ proxyPool.gnpResult # <<>>
  /\ proxyPool.isValidating
  /\ \E k \in 1..Len(proxyPool.proxies) :
       proxyPool.probed[proxyPool.proxies[k].url] # "valid"

\* C8: getNextProxy answers null for a non-empty pool only after its
\* re-validation pass probed candidates and ran to completion.
C8_NullOnlyAfterCompletedRevalidation ==
  (proxyPool.gnpPc = "returned" /\ proxyPool.gnpResult = <<>>
     /\ proxyPool.gnpVia # "emptyPool")
  => proxyPool.gnpVia = "passCompleted"

\* C10: no two candidates of this.proxies have the same normalized endpoint.
C10_NoDuplicateEndpoints ==
  \A j, k \in 1..Len(proxyPool.proxies) :
    j # k => proxyPool.proxies[j].url # proxyPool.proxies[k].url

C10_Witness ==
  /\ proxyPool.dupSeen
  /\ Len(proxyPool.proxies) >= 2

\* the urls of the candidate list, as a set
CandidateSet == {proxyPool.proxies[k].url : k \in 1..Len(proxyPool.proxies)}

\* a fetchProxies call that contacted its sources has replaced the list
ListReplaced == proxyPool.lastFetchTime > 0 /\ ~proxyPool.isFetching

C9_InitProxyPoolRaises ==
  (proxyMode = "http" /\ proxySourcesForPool = 0 /\ pc # "Initializing")
  => poolInit = "threw"

\* C9 (amended): with zero source URLs initProxyPool resolves, and main's check
\* of the pool statistics exits with status 1 before any iteration begins.
C9_ZeroSourcesFatalInMain ==
  (proxyMode = "http" /\ proxySourcesForPool = 0 /\ pc # "Initializing")
  => (poolInit = "resolved" /\ pc = "exited" /\ exitCode = 1 /\ begun = 0)

C9_Witness ==
  proxyMode = "http" /\ proxySourcesForPool = 0 /\ pc = "exited"

\* ------------------------------------------------------------------------
\* Claims about the address check, the like step and the pacing
\* ------------------------------------------------------------------------
\* the result of the address check made by this step
Observed == ipLog'[Len(ipLog')]

\* the rotation branch leaves its address check
AddressCheckDone == pc = "VerifyIp" /\ pc' # "VerifyIp"

\* C12: on an iteration i > 0 of tor mode, when the rotation succeeded and the
\* address check fails, no failure is counted and the iteration goes on to
\* launch its session.
C12_AddressCheckFailureIsWarning ==
  [][ (AddressCheckDone /\ ~ctlFailed /\ Observed \in {"throws", "falsy"})
        => (failCount' = failCount /\ pc' = "Launch") ]_vars

\* C13: when the address observed after a rotation equals the recorded one,
\* the warning is given, no counter changes, the session is launched, and the
\* iteration is counted exactly once by the end of its session; for the
\* addresses 1.1.1.1, 2.2.2.2, 2.2.2.2 the warning is given in iteration 3 and
\* not in iteration 2.
C13_UnchangedAddressWarnsAndProceeds ==
  /\ [][ AddressCheckDone =>
           /\ (Observed \in Ips /\ Observed = lastIp) =>
                /\ ipWarn'
                /\ pc' = "Launch"
                /\ failCount' = failCount /\ successCount' = successCount
           /\ (ipLog' = <<"1.1.1.1", "2.2.2.2", "2.2.2.2">>) => ipWarn'
           /\ (ipLog' = <<"1.1.1.1", "2.2.2.2">>) => ~ipWarn' ]_vars
  /\ [](pc = "Pace" /\ ipWarn => successCount + failCount = i + 1)

C13_Witness ==
  /\ ipLog = <<"1.1.1.1", "2.2.2.2", "2.2.2.2">>
  /\ ipWarn
  /\ pc = "Pace"
  /\ launched

\* C14: with liking enabled and a watch step that returned true, the
\* iteration is counted as a success whatever the like step does.
C14_LikeNeverFailsTheIteration ==
  [][ (pc = "Like" /\ pc' # "Like")
        => (successCount' = successCount + 1 /\ failCount' = failCount) ]_vars

\* C16: after k finished iterations there were k pacing sleeps, and after the
\* last iteration there is none: numViews - 1 sleeps in all.
C16_SleepIffNotLast ==
  pc = "LoopHead" => sleeps = (IF i < numViews THEN i ELSE numViews - 1)

\* C17: an iteration acquires its identity and launches its session only when
\* no session of an earlier iteration is open and every earlier iteration has
\* been counted.
C17_IterationsNeverOverlap ==
  pc \in {"Rotate", "VerifyIp", "CheckIp", "HttpAcquire", "Launch"}
    => (openSessions = 0 /\ successCount + failCount = i)

\* C18: a run that passed initialization has written both the success count
\* and the failure count when the process exits.
C18_SummaryAlwaysWritten ==
  (pc = "exited" /\ initialized)
  => summaryLines = {"Successful views", "Failed views"}

\* C19: in tor mode the first iteration requests no rotation, every later
\* iteration requests exactly one before its address check and its launch,
\* and a completed run of N iterations has requested N - 1 rotations.
C19_OneRotationPerLaterIteration ==
  proxyMode = "tor" =>
    /\ pc = "CheckIp" => (i = 0 /\ rotations = 0)
    /\ pc = "Rotate" => (i > 0 /\ rotations = i - 1)
    /\ pc \in {"VerifyIp", "RotateFailDelay", "Launch", "Watch", "Like",
               "Finally", "Pace"} => rotations = i
    /\ completed => rotations = numViews - 1

C19_Witness ==
  /\ proxyMode = "tor"
  /\ completed
  /\ numViews = 3
  /\ rotations = 2

\* C20: when the initialization of the identity provider fails, the process
\* exits with status 1 and no iteration has begun, no session was launched
\* and no rotation was requested.
C20_InitFailureAborts ==
  (torInit \in {"initThrows", "ipFalsy", "ipThrows"} \/ poolInit = "threw")
  => /\ pc = "exited" /\ exitCode = 1
     /\ begun = 0 /\ ~launched /\ openSessions = 0 /\ rotations = 0

C20_Witness ==
  /\ torInit = "ipFalsy"
  /\ pc = "exited"

\* ------------------------------------------------------------------------
\* Claims about the watch duration
\* ------------------------------------------------------------------------
\* C15: the watch duration is an integer of [minWatchSeconds, maxWatchSeconds],
\* and it is the bound itself when the two bounds are equal.
C15_WatchDurationWithinBounds ==
  watchDurationSeconds # -1 =>
    /\ watchDurationSeconds \in minWatchSeconds..maxWatchSeconds
    /\ minWatchSeconds = maxWatchSeconds => watchDurationSeconds = minWatchSeconds

C15_Witness ==
  /\ minWatchSeconds = maxWatchSeconds
  /\ watchDurationSeconds = minWatchSeconds
  /\ random = RandomSteps - 1


\* ------------------------------------------------------------------------
\* Claims about a failed launch
\* ------------------------------------------------------------------------

\* C21: a launch step that gives main no usable handle counts the failure
\* exactly once, leaves no browser it created open, does not end the process
\* and goes on to the iteration's cleanup (and from there to the next
\* iteration).
C21_LaunchFailureContained ==
  [][(pc = "Launch" /\ ~launched')
       => /\ pc' = "Finally"
          /\ failCount' = failCount + 1
          /\ openSessions' = openSessions
          /\ exitCode' = exitCode]_vars


\* ------------------------------------------------------------------------
\* Claims about ProxyPool: refresh, selection order, probes in flight
\* ------------------------------------------------------------------------
\* the step in which fetchProxies replaces this.proxies
FetchReplacesList == proxyPool.isFetching /\ ~proxyPool'.isFetching

\* C22: when fetchProxies replaces the candidate list, every candidate of the
\* new list is in the validation pass that runs from then on, and an endpoint
\* returned by getNextProxy has a validation result recorded no earlier than
\* the latest replacement of the list.
C22_RefreshRevalidatesEveryCandidate ==
  [][ /\ FetchReplacesList =>
           \A k \in 1..Len(proxyPool'.proxies) :
             \E j \in 1..Len(proxyPool'.valList) :
               proxyPool'.valList[j] = proxyPool'.proxies[k].url
      /\ (GetNextProxyReturns /\ proxyPool'.gnpResult # <<>>) =>
           proxyPool'.validatedProxiesInfo[proxyPool'.gnpResult[1]].lastChecked
             >= proxyPool'.lastFetchTime ]_vars


\* the candidate after u in the cyclic order of a list that contains u
Successor(list, u) ==
  LET k == CHOOSE j \in 1..Len(list) : list[j] = u
  IN list[(k % Len(list)) + 1]

C24_CurrentIndexAlwaysInRange ==
  Len(WorkingProxies(proxyPool)) >= 1
    => proxyPool.currentIndex \in 0..(Len(WorkingProxies(proxyPool)) - 1)

\* C24 (amended): when getNextProxy returns an endpoint, currentIndex is a
\* valid index into the validated candidates of that moment and the endpoint
\* returned is the one at that index.
C24_CurrentIndexInRangeAtReturn ==
  [][ (GetNextProxyReturns /\ proxyPool'.gnpResult # <<>>) =>
        /\ proxyPool'.currentIndex \in 0..(Len(WorkingProxies(proxyPool')) - 1)
        /\ proxyPool'.gnpResult[1]
             = WorkingProxies(proxyPool')[proxyPool'.currentIndex + 1] ]_vars

\* a selection among the one validated candidate left of two: the other was
\* probed valid in this list and invalid since
C24_Witness ==
  /\ proxyPool.gnpPc = "returned"
  /\ proxyPool.gnpResult # <<>>
  /\ proxyPool.gnpVia = "roundRobin"
  /\ Len(proxyPool.proxies) = 2
  /\ Len(WorkingProxies(proxyPool)) = 1
  /\ \E k \in 1..2 : /\ proxyPool.proxies[k].validated
                      /\ proxyPool.probed[proxyPool.proxies[k].url] = "invalid"

FetchBegins == ~proxyPool.isFetching /\ proxyPool'.isFetching

C26_ControlCommandOutcome ==
  /\ written \in {<<>>, <<AuthenticateLine(torConfig), <<"NEWNYM">>, <<"QUIT">>>>}
  /\ socket = "open" => written # <<>>
  /\ socket = "closed" => settled \in {"resolved", "rejected"}
  /\ settled = "resolved" <=>
       /\ socket = "closed"
       /\ Includes250OK(response)
       /\ errorMessage.kind = "none"
  /\ settled = "rejected" =>
       /\ errorMessage.kind \in {"Control command failed",
                                 "Control connection error",
                                 "Control command timeout"}
       /\ errorMessage.kind = "Control command failed" =>
            /\ socket = "closed"
            /\ ~Includes250OK(response)
            /\ errorMessage.response = response

\* the token arrived in two chunks and the connection closed
C26_Witness ==
  /\ socket = "closed"
  /\ settled = "resolved"
  /\ response = <<"250 ", "OK">>
  /\ Len(written) = 3

\* C27: the control connection goes to the control host and control port of
\* the configuration, and the authenticate line carries the configured
\* secret exactly when one is configured.
C27_ControlEndpointAndSecret ==
  socket # "none" =>
    /\ connectedTo = <<torConfig.controlHost, torConfig.controlPort>>
    /\ written # <<>> =>
         written[1] = IF torConfig.password # ""
                        THEN <<"AUTHENTICATE", torConfig.password>>
                        ELSE <<"AUTHENTICATE">>


\* C29: initTor makes at most 1 + 10 isTorRunning probes and ends; when no
\* probe and no status check ever finds the port open, it ends with an error
\* (after exactly one probe when there is no binary to start) and
\* isInitialized stays false.
C29_InitTorFailsAfterBoundedProbes ==
  /\ [](probes <= 1 + ReadinessPolls)
  /\ [](~reached => ~isInitialized)
  /\ []((initPc = "done" /\ ~reached) =>
          /\ initResult \in {"Tor binary not found", "Failed to start Tor"}
          /\ torPath # "exists" => probes = 1)
  /\ <>(initPc = "done")

\* the daemon was spawned and all ten polls failed
C29_Witness ==
  /\ initPc = "done"
  /\ ~reached
  /\ torPath = "exists"
  /\ probes = 1 + ReadinessPolls
  /\ initResult = "Failed to start Tor"

\* C30: rotationCount never decreases; a rotateIP call that returns true has
\* increased it by one and set lastRotation to the time of its return, a
\* call that returns false has changed neither.
C30_RotationCountMonotonic ==
  [][ /\ rotationCount' >= rotationCount
      /\ (torPc # "idle" /\ torPc' = "idle" /\ rotateResult' = "true") =>
           /\ rotationCount' = rotationCount + 1
           /\ lastRotation' = now'
      /\ (torPc # "idle" /\ torPc' = "idle" /\ rotateResult' = "false") =>
           /\ rotationCount' = rotationCount
           /\ lastRotation' = lastRotation
      /\ torPc' # "idle" =>
           /\ rotationCount' = rotationCount
           /\ lastRotation' = lastRotation ]_vars

\* a second successful rotation, completed later than the first
C30_Witness ==
  /\ torPc = "idle"
  /\ rotateResult = "true"
  /\ rotationCount = 2
  /\ lastRotation = now

\* C35: in every reachable state of the ProxyPool the statistics of getStats
\* satisfy workingProxies <= totalProxies, also after a refresh that replaced
\* the candidate list by a smaller or a different one.
C35_WorkingAtMostTotal ==
  GetStats(proxyPool).workingProxies <= GetStats(proxyPool).totalProxies

\* C39: for every candidate of proxies the flag validated is true if and
\* only if the latest result recorded for its endpoint in
\* validatedProxiesInfo is valid.
C39_FlagMatchesLatestResult ==
  \A k \in 1..Len(proxyPool.proxies) :
    proxyPool.proxies[k].validated
      <=> ( HasInfo(proxyPool, proxyPool.proxies[k].url)
            /\ proxyPool.validatedProxiesInfo[proxyPool.proxies[k].url].valid )

\* C33: under every interleaving of fetchProxies, validateAllProxies and
\* getNextProxy calls at most one source-fetch pass and at most one
\* validation pass is in progress: no call starts a pass while one of its
\* kind runs, and the flags isFetching and isValidating say exactly whether
\* one is running.
C33_OnePassOfEachKind ==
  /\ proxyPool.fetchPasses \in {0, 1}
  /\ proxyPool.valPasses \in {0, 1}
  /\ proxyPool.isFetching <=> proxyPool.fetchPasses = 1
  /\ proxyPool.isValidating <=> proxyPool.valPasses = 1

\* a fetch pass and a validation pass run at the same time, and a
\* getNextProxy call is waiting for one of them
C33_Witness ==
  /\ proxyPool.isFetching /\ proxyPool.fetchPasses = 1
  /\ proxyPool.isValidating /\ proxyPool.valPasses = 1
  /\ proxyPool.valInflight # {}
  /\ proxyPool.gnpPc \in {"awaitFetch", "awaitValidate"}

\* C34: rotateIP reports a rotation (returns true, counts it) only if the
\* reply of the control port to the NEWNYM line itself was 250 OK; a 250 OK
\* for the authenticate line followed by a rejected NEWNYM is no rotation.
C34_RotationOnlyIfNewnymAcknowledged ==
  (/\ socket = "closed"
   /\ written = ControlWrites(torConfig, "NEWNYM")
   /\ RotateIP(IF settled = "resolved" THEN "ack" ELSE "noack") = "true")
    => CommandAcknowledged(response)

C31_AtMostOneFallback ==
  /\ fallbacks <= 1
  /\ Len(attempted) <= 2
  /\ \A j, k \in 1..Len(attempted) : j # k => attempted[j] # attempted[k]

\* C36: the number of iterations the main loop runs is a whole number
\* between 1 and 1000: once finalOptions is built numViews is in that range,
\* a value of -n/--views outside the range is not used, the prompted value is
\* used instead, and a loop that was left has run at least once.
C36_NumViewsInRange ==
  /\ optPc \in {"loop", "done"} =>
       /\ ViewsInRange(finalNumViews)
       /\ ~ViewsInRange(cliViews) => finalNumViews = promptedNumViews
  /\ optPc = "done" => iterations >= 1

\* the calls of fn made so far, the one in progress included
FnCallsMade == Len(fnCalls) + (IF retryPc = "calling" THEN 1 ELSE 0)

\* C37: a function wrapped by withRetry(fn, maxRetries, delayMs) calls fn at
\* most maxRetries + 1 times; no call follows a call that succeeded and the
\* value returned is that call's; after the k-th failed call it waits
\* delayMs * k, with no wait after the last call allowed; when every call
\* failed it throws the error of the last call.
C37_WithRetry ==
  /\ FnCallsMade <= maxRetries + 1
  /\ \A k \in 1..(FnCallsMade - 1) : fnCalls[k].kind = "throws"
  /\ retryResult.kind = "returned" =>
       /\ fnCalls # <<>>
       /\ fnCalls[Len(fnCalls)] = [kind |-> "returns", v |-> retryResult.v]
  /\ \A k \in 1..Len(waits) : waits[k] = delayMs * k
  /\ LET failed == Cardinality({k \in 1..Len(fnCalls) : fnCalls[k].kind = "throws"})
     IN Len(waits) = (IF failed > 0 /\ failed = maxRetries + 1 THEN failed - 1 ELSE failed)
  /\ retryResult.kind = "thrown" =>
       /\ Len(fnCalls) = maxRetries + 1
       /\ \A k \in 1..Len(fnCalls) : fnCalls[k].kind = "throws"
       /\ fnCalls # <<>> => retryResult.v = fnCalls[Len(fnCalls)].v

\* two calls failed with different errors, each followed by its wait, and
\* the third call, the last one allowed, failed too
C37_Witness ==
  /\ retryResult.kind = "thrown"
  /\ Len(fnCalls) = 3 /\ fnCalls[1].v # fnCalls[3].v
  /\ delayMs > 0 /\ waits = <<delayMs, 2 * delayMs>>

\* a call at time t is allowed: fewer than maxCalls grants are younger than
\* windowMs
AllowedAt(t) ==
  Cardinality({k \in 1..Len(granted) : t - granted[k] < windowMs}) < maxCalls

\* C38: for calls of makeCall, canMakeCall and getWaitTime at non-decreasing
\* times, in every time window of length windowMs makeCall returns true at
\* most maxCalls times; getWaitTime returns 0 exactly when a call is allowed
\* and otherwise a positive time, and the first makeCall made at or after the
\* end of that time, with no makeCall in between, returns true.
C38_RateLimiter ==
  /\ \A t \in 0..limNow :
       Cardinality({k \in 1..Len(granted) :
                      t <= granted[k] /\ granted[k] < t + windowMs}) <= maxCalls
  /\ lastOp.op = "getWaitTime" =>
       /\ lastOp.wait = 0 <=> AllowedAt(lastOp.at)
       /\ lastOp.wait >= 0
  /\ lastOp.op = "canMakeCall" => (lastOp.ok <=> AllowedAt(lastOp.at))
  /\ (lastOp.op = "makeCall" /\ lastOp.due) => lastOp.ok

\* getWaitTime told to wait, the time passed with no makeCall, and the
\* makeCall made then was granted, beyond the first maxCalls grants
C38_Witness ==
  /\ lastOp.op = "makeCall" /\ lastOp.due /\ lastOp.ok
  /\ Len(granted) > maxCalls

====
